---- MODULE Spec2Model ----
(***************************************************************************)
(* PopNote (obsidian-popnote): the plugin's window reconciliation, the     *)
(* buffer-time reuse decision and the file tracker, as a state machine.    *)
(* Modelled from src/src/core/FileTracker.ts (FileTracker, HotkeyManager   *)
(* and PopNotePlugin) and src/src/core/WindowManager.ts.                   *)
(*                                                                         *)
(* The host is part of the state: the vault (TFile objects), the Electron  *)
(* windows (BrowserWindow list) and the clock (Date.now()).  An async      *)
(* handler is one action per segment between two real suspension points    *)
(* (timers, vault I/O, saveData, leaf.openFile).                           *)
(***************************************************************************)
EXTENDS Integers, Sequences, FiniteSets, TLC

\* ---------------------------------------------------------------- bounds
MaxPresses == 3      \* hotkey presses in one behaviour
MaxTicks == 3        \* handlers that find the clock advanced, in one behaviour
MaxEvents == 2       \* user / vault events (close, resize, move, delete, ...)
MaxInFlight == 2     \* handlers that overlap: invocations and settle timers pending at once
MaxHotkeyLen == 3    \* pieces of an accelerator read from data.json

\* ------------------------------------------------------ program constants
MsPerMinute == 60000          \* bufferTime * 60 * 1000
MsPerSecond == 1000           \* {{time}} has a resolution of one second
StartTime == MsPerSecond       \* Date.now() when the plugin is loaded, on a full second

NavThrottleMs == 100          \* navigatePopNote: "Prevent rapid navigation"

\* by how much a hotkey press finds the clock advanced since the last one
Deltas == {0, 1000}
\* the same for a user who lets a second pass between two presses
UserDeltas == {1000}
\* the same for a navigation command: within the throttle, or a second later
NavDeltas == {50, 1000}
\* the same, around the end of a buffer of 5 minutes
BufferDeltas == {0, 299000, 300000, 301000}

\* values of the settings
BufferTimes == {"none", "permanent", "5"}
Sizes == {"default", "s1"}          \* "default" is defaultWindowWidth x defaultWindowHeight
Positions == {"center", "p1"}       \* "center" is where calculateWindowPosition puts it
Cursors == {"start", "c1"}          \* editor cursor: {line 0, ch 0} or somewhere else
\* DEFAULT_SETTINGS.createNoteHotkey, 'CmdOrCtrl+Shift+N'
DefaultHotkey == <<"CmdOrCtrl", "+", "Shift", "+", "N">>
NoId == ""                          \* getFileId's null, lastCreatedNote.fileId's undefined
NoSize == "nosize"                  \* lastUsedWindowSize === null
NoPos == "nopos"                    \* lastWindowPosition === null
RenameTargets == {"PopNotes/A.md"}  \* paths a user renames a note to

\* --------------------------------------------------------------- helpers
Put(m, k, v) == [x \in (DOMAIN m) \cup {k} |-> IF x = k THEN v ELSE m[x]]
Del(m, k) == [x \in (DOMAIN m) \ {k} |-> m[x]]
Has(m, k) == k \in DOMAIN m
Range(s) == {s[i] : i \in DOMAIN s}

\* Array.prototype.splice(i, 1)
RemoveAt(s, i) == SubSeq(s, 1, i - 1) \o SubSeq(s, i + 1, Len(s))

\* Array.prototype.indexOf: first index of x in s, 0 when absent
IndexOf(s, x) ==
    IF \E i \in DOMAIN s : s[i] = x
    THEN CHOOSE i \in DOMAIN s : s[i] = x /\ \A j \in 1..(i - 1) : s[j] # x
    ELSE 0

VARIABLES
    now,               \* Date.now()
    ticks,             \* clock advances so far
    files,             \* the vault's TFile objects: [path, ctime, mtime, exists]
    wins,              \* popout windows requested so far: BrowserWindow + its leaf
    popNoteWindow,     \* WindowManager.popNoteWindow (0 is null)
    popNoteLeaf,       \* WindowManager.popNoteLeaf (0 is null)
    currentFile,       \* WindowManager.currentFile (0 is null)
    fileTracking,      \* settings.fileTracking: [fileIdToPath, pathToFileId]
    cursorPositions,   \* settings.cursorPositions
    pinnedNotes,       \* settings.pinnedNotes
    lastCreatedNote,   \* settings.lastCreatedNote: <<>> is null, else <<[path, timestamp, fileId]>>
    bufferTime,        \* settings.bufferTime
    windowSizeMode,    \* settings.windowSizeMode
    windowPosition,    \* settings.windowPosition
    lastUsedWindowSize,\* settings.lastUsedWindowSize
    lastWindowPosition,\* settings.lastWindowPosition
    invs,              \* running createOrOpenPopNote invocations: id -> its position and locals
    timers,            \* pending settle timers of createPopNoteWindowWithFile
    presses,           \* hotkey presses so far
    events,            \* user / vault events so far
    sortOrder,         \* settings.sortOrder
    cursorPosition,    \* settings.cursorPosition
    createNoteHotkey,  \* settings.createNoteHotkey, as the sequence of its characters
    registeredHotkeys, \* HotkeyManager.registeredHotkeys
    globalShortcut,    \* the accelerators the host holds for the application
    lastNavigationTimestamp, \* PopNotePlugin.lastNavigationTimestamp
    restoreTimers,     \* pending 100 ms timers of the settle timer (cursorPosition 'last')
    mainWindow,        \* the host's main window: "open" (visible), "hidden", "minimized"
                       \* or "closed"
    reconnectTimer,    \* the 1 s timer of reconnectExistingPopNoteWindows is pending
    autoMinimizeMode,  \* main.ts, settings.autoMinimizeMode
    mainWindowWasVisible, \* main.ts, PopNotePlugin.mainWindowWasVisible
    minimizeScheduled, \* main.ts, PopNotePlugin.minimizeScheduled
    minimizeTimeouts,  \* main.ts, pending 3 s timeouts of scheduleMainWindowMinimize
    popout,            \* main.ts, the popout: "absent", "created", "visible" or "hidden"
    shouldCreateNewNote, \* main.ts, PopNotePlugin.shouldCreateNewNote
    activeFile,        \* main.ts, the note of the host's active markdown view, 0 for none
    persisted,         \* the settings document on disk, as the last saveData call wrote it
    windowLevel,       \* settings.windowLevel: "normal", "floating" or "screen-saver"
    lastNav,           \* the last navigation that ran: <<>> or <<[dir, index, time]>> (history)
    lastOp,            \* the handler segment that ran last, with what it saw (history)
    errors             \* exceptions that left an entry point uncaught (history)

hostVars == <<now, ticks, files, wins>>
wmVars == <<popNoteWindow, popNoteLeaf, currentFile>>
trackVars == <<fileTracking, cursorPositions, pinnedNotes, lastCreatedNote>>
confVars == <<bufferTime, windowSizeMode, windowPosition>>
geomVars == <<lastUsedWindowSize, lastWindowPosition>>
procVars == <<invs, timers, presses, events>>
minVars == <<autoMinimizeMode, mainWindowWasVisible, minimizeScheduled, minimizeTimeouts,
             popout, shouldCreateNewNote, activeFile>>
sessVars == <<minVars, windowLevel, sortOrder, cursorPosition, createNoteHotkey, registeredHotkeys, globalShortcut,
              lastNavigationTimestamp, restoreTimers, mainWindow, reconnectTimer,
              lastNav>>
vars == <<now, ticks, files, wins, popNoteWindow, popNoteLeaf, currentFile,
          fileTracking, cursorPositions, pinnedNotes, lastCreatedNote,
          bufferTime, windowSizeMode, windowPosition, lastUsedWindowSize,
          lastWindowPosition, invs, timers, presses, events, sortOrder,
          cursorPosition, createNoteHotkey, registeredHotkeys, globalShortcut,
          lastNavigationTimestamp, restoreTimers, mainWindow, reconnectTimer, lastNav,
          autoMinimizeMode, mainWindowWasVisible, minimizeScheduled, minimizeTimeouts,
          popout, shouldCreateNewNote, activeFile, windowLevel, persisted, lastOp,
          errors>>

\* ------------------------------------------------------------- the host
\* BrowserWindow.getAllWindows(): the popout windows the host lists (the main
\* window is in every list and in every snapshot, and is left out)
getAllWindows == {w \in DOMAIN wins : wins[w].state \in {"visible", "hidden"}}
isDestroyed(w) == wins[w].state = "destroyed"
isVisible(w) == wins[w].state = "visible"
\* WorkspaceLeaf.detached: the leaf of a destroyed window
detached(l) == wins[l].state = "destroyed"

\* vault.getAbstractFileByPath(path) instanceof TFile
FileAt(path) == {f \in DOMAIN files : files[f].exists /\ files[f].path = path}
PathExists(path) == FileAt(path) # {}

\* ------------------------------------------------------------ FileTracker
\* FileTracker.getFileId: ctime.toString(), null for a falsy ctime
getFileId(file) == IF file.ctime # 0 THEN ToString(file.ctime) ELSE NoId

\* trackFile with the old path's entry deleted after the new one is written,
\* and whatever the old path is
trackFileDeletesLast(tr, file) ==
    LET fileId == getFileId(file)
        path == file.path
    IN  IF fileId = NoId THEN tr
        ELSE LET oldPath == IF Has(tr.fileIdToPath, fileId)
                            THEN tr.fileIdToPath[fileId] ELSE ""
                 p2i == Put(tr.pathToFileId, path, fileId)
             IN  [fileIdToPath |-> Put(tr.fileIdToPath, fileId, path),
                  pathToFileId |-> IF oldPath # "" THEN Del(p2i, oldPath) ELSE p2i]

\* FileTracker.trackFile, on the tracking object tr
trackFile(tr, file) ==
    LET fileId == getFileId(file)
        path == file.path
    IN  IF fileId = NoId THEN tr
        ELSE LET oldPath == IF Has(tr.fileIdToPath, fileId)
                            THEN tr.fileIdToPath[fileId] ELSE ""
                 p2i == IF oldPath # "" /\ oldPath # path
                        THEN Del(tr.pathToFileId, oldPath)
                        ELSE tr.pathToFileId
             IN  [fileIdToPath |-> Put(tr.fileIdToPath, fileId, path),
                  pathToFileId |-> Put(p2i, path, fileId)]

\* updateFilePath that leaves the old path in the reverse map
updateFilePathKeepsOld(tr, oldPath, newPath) ==
    IF Has(tr.pathToFileId, oldPath)
    THEN LET fileId == tr.pathToFileId[oldPath]
         IN  [fileIdToPath |-> Put(tr.fileIdToPath, fileId, newPath),
              pathToFileId |-> Put(tr.pathToFileId, newPath, fileId)]
    ELSE tr

\* FileTracker.updateFilePath
updateFilePath(tr, oldPath, newPath) ==
    IF Has(tr.pathToFileId, oldPath)
    THEN LET fileId == tr.pathToFileId[oldPath]
         IN  [fileIdToPath |-> Put(tr.fileIdToPath, fileId, newPath),
              pathToFileId |-> Put(Del(tr.pathToFileId, oldPath), newPath, fileId)]
    ELSE tr

\* FileTracker.getTrackedPath ("" is undefined)
getTrackedPath(fileId) ==
    IF Has(fileTracking.fileIdToPath, fileId)
    THEN fileTracking.fileIdToPath[fileId] ELSE ""

\* FileTracker.saveCursorPosition / getCursorPosition / clearCursorPosition
saveCursorPosition(cp, filePath, position) == Put(cp, filePath, position)
getCursorPosition(cp, filePath) == IF Has(cp, filePath) THEN cp[filePath] ELSE ""
clearCursorPosition(cp, filePath) == Del(cp, filePath)

\* ---------------------------------------------------------- WindowManager
\* the part of the state the synchronous WindowManager methods work on
St == [wins |-> wins, popNoteWindow |-> popNoteWindow, popNoteLeaf |-> popNoteLeaf,
       currentFile |-> currentFile, fileTracking |-> fileTracking,
       cursorPositions |-> cursorPositions]

\* this.settings: the fields the plugin changes while it runs
settings ==
    [fileTracking |-> fileTracking, cursorPositions |-> cursorPositions,
     pinnedNotes |-> pinnedNotes, lastCreatedNote |-> lastCreatedNote,
     lastUsedWindowSize |-> lastUsedWindowSize, lastWindowPosition |-> lastWindowPosition]

\* PopNotePlugin.saveSettings, called at the end of a handler segment:
\* saveData(this.settings) writes the settings as the segment leaves them
saveSettings ==
    persisted' = [fileTracking |-> fileTracking', cursorPositions |-> cursorPositions',
                  pinnedNotes |-> pinnedNotes', lastCreatedNote |-> lastCreatedNote',
                  lastUsedWindowSize |-> lastUsedWindowSize',
                  lastWindowPosition |-> lastWindowPosition']

Commit(s) ==
    /\ wins' = s.wins
    /\ popNoteWindow' = s.popNoteWindow
    /\ popNoteLeaf' = s.popNoteLeaf
    /\ currentFile' = s.currentFile
    /\ fileTracking' = s.fileTracking
    /\ cursorPositions' = s.cursorPositions

\* WindowManager.saveCursorPositionFromLeaf; savedWhile keeps the state the
\* leaf's window was in when the cursor was read (history)
saveCursorPositionFromLeaf(s) ==
    IF s.popNoteLeaf = 0 \/ s.currentFile = 0 THEN s
    ELSE [s EXCEPT !.cursorPositions =
            saveCursorPosition(@, files[s.currentFile].path, s.wins[s.popNoteLeaf].cursor),
                   !.wins[s.popNoteLeaf].savedWhile = s.wins[s.popNoteLeaf].state]

\* WindowManager.restoreCursorPosition
restoreCursorPosition(s, f) ==
    IF s.popNoteLeaf = 0 THEN s
    ELSE LET savedPosition == getCursorPosition(s.cursorPositions, files[f].path)
         IN  IF savedPosition = "" THEN s
             ELSE [s EXCEPT !.wins[s.popNoteLeaf].cursor = savedPosition]

\* showExistingWindow with the fixed size applied whatever windowSizeMode is
showExistingWindowAlwaysFixed(s) ==
    LET w == s.popNoteWindow
        pos == IF windowPosition # "last" THEN "center" ELSE s.wins[w].pos
        shown == [s EXCEPT !.wins[w].size = "default", !.wins[w].pos = pos,
                           !.wins[w].state = "visible",
                           !.wins[w].levelApplied = windowLevel # "normal"]
    IN  IF shown.currentFile # 0 THEN restoreCursorPosition(shown, shown.currentFile)
        ELSE shown

\* WindowManager.showExistingWindow, past its existence check
showExistingWindow(s) ==
    LET w == s.popNoteWindow
        size == IF windowSizeMode = "fixed" THEN "default" ELSE s.wins[w].size
        pos == IF windowPosition # "last" THEN "center" ELSE s.wins[w].pos
        shown == [s EXCEPT !.wins[w].size = size, !.wins[w].pos = pos,
                           !.wins[w].state = "visible",
                           !.wins[w].levelApplied = windowLevel # "normal"]
    IN  IF shown.currentFile # 0 THEN restoreCursorPosition(shown, shown.currentFile)
        ELSE shown

\* leaf.openFile(f), when it completes
openFile(ws, l, f) ==
    IF ws[l].state = "destroyed" THEN ws
    ELSE [ws EXCEPT ![l].file = f,
                    ![l].cursor = IF ws[l].file = f THEN @ ELSE "start"]

\* app.workspace.openPopoutLeaf(windowData): the leaf exists at once, the
\* BrowserWindow is listed by the host later
NewWindow(size, pos) ==
    [state |-> "pending", size |-> size, pos |-> pos, file |-> 0, cursor |-> "start",
     isPopNote |-> FALSE, hClose |-> FALSE, hResize |-> FALSE, hMove |-> FALSE,
     restored |-> FALSE, levelApplied |-> FALSE, savedWhile |-> "never"]

\* an invocation's locals
Inv(pc, cw, f, l, path, before) ==
    [pc |-> pc, cw |-> cw, file |-> f, leaf |-> l, path |-> path, before |-> before]

Finish(i) == invs' = Del(invs, i) /\ errors' = errors
Throw(i, what) == invs' = Del(invs, i) /\ errors' = errors \cup {what}

\* --------------------------------------------------------- PopNotePlugin
\* PopNotePlugin.shouldReuseLastNote
bufferMs == IF bufferTime = "5" THEN 5 * MsPerMinute ELSE 0
shouldReuseLastNote(t) ==
    IF bufferTime = "none" THEN FALSE
    ELSE IF bufferTime = "permanent" THEN TRUE
    ELSE IF lastCreatedNote # <<>>
         THEN (t - lastCreatedNote[1].timestamp) <= bufferMs
         ELSE FALSE

\* getLastCreatedNote that looks the note up by its stored path only
getLastCreatedNoteByPath ==
    IF lastCreatedNote = <<>> THEN 0
    ELSE LET byPath == FileAt(lastCreatedNote[1].path)
         IN  IF byPath # {} THEN CHOOSE f \in byPath : TRUE ELSE 0

\* PopNotePlugin.getLastCreatedNote: the file, 0 for null
getLastCreatedNote ==
    IF lastCreatedNote = <<>> THEN 0
    ELSE LET byId == IF lastCreatedNote[1].fileId # NoId
                        /\ getTrackedPath(lastCreatedNote[1].fileId) # ""
                     THEN FileAt(getTrackedPath(lastCreatedNote[1].fileId))
                     ELSE {}
             byPath == FileAt(lastCreatedNote[1].path)
         IN  IF byId # {} THEN CHOOSE f \in byId : TRUE
             ELSE IF byPath # {} THEN CHOOSE f \in byPath : TRUE
             ELSE 0

\* PopNotePlugin.generateNoteName + normalizePath, for the default pattern
\* 'PopNote {{date}} {{time}}': one name per clock second
generateNoteName(t) == "PopNote " \o ToString(t \div MsPerSecond)
notePath(t) == "PopNotes/" \o generateNoteName(t) \o ".md"

\* PopNotePlugin.createNewPopNote up to its vault.create: the vault rejects a
\* path that exists; otherwise the file comes to exist when the write completes
BeginCreate(i, pc, t) ==
    LET path == notePath(t)
    IN  /\ IF PathExists(path)
           THEN Throw(i, "create") /\ lastOp' = "createThrow"
           ELSE /\ invs' = Put(invs, i, Inv(pc, 0, 0, 0, path, {}))
                /\ errors' = errors
                /\ lastOp' = "create"
        /\ UNCHANGED <<files, wins, wmVars, trackVars>>

\* WindowManager.showPopNoteWindow(f) up to its first suspension
\* (with createPopNoteWindowWithFile up to its leaf.openFile)
ShowPopNoteWindow(i, f) ==
    LET s0 == [St EXCEPT !.fileTracking = trackFile(@, files[f])]
        s1 == IF s0.currentFile # 0 /\ s0.currentFile # f
              THEN saveCursorPositionFromLeaf(s0) ELSE s0
    IN  IF s1.popNoteWindow = 0 \/ isDestroyed(s1.popNoteWindow)
        THEN LET s2 == [s1 EXCEPT !.fileTracking = trackFile(@, files[f])]
                 size == IF windowSizeMode = "remember" /\ lastUsedWindowSize # NoSize
                         THEN lastUsedWindowSize ELSE "default"
                 pos == IF windowPosition = "last" /\ lastWindowPosition # NoPos
                        THEN lastWindowPosition ELSE "center"
                 windowsBefore == getAllWindows
                 leaf == Len(wins) + 1
             IN  /\ Commit([s2 EXCEPT !.wins = Append(@, NewWindow(size, pos)),
                                      !.popNoteLeaf = leaf])
                 /\ invs' = Put(invs, i, Inv("cOpen", 0, f, leaf, "", windowsBefore))
        ELSE IF s1.popNoteLeaf # 0 /\ ~detached(s1.popNoteLeaf)
        THEN /\ Commit(s1)
             /\ invs' = Put(invs, i, Inv("sOpen", 0, f, s1.popNoteLeaf, "", {}))
        ELSE \* floatingSplit's item with win === popNoteWindow
             /\ Commit([s1 EXCEPT !.popNoteLeaf = s1.popNoteWindow])
             /\ invs' = Put(invs, i, Inv("sOpen", 0, f, s1.popNoteWindow, "", {}))

\* time passes between two hotkey presses: the press finds the clock d ms
\* further than the last one did
Elapse(d) ==
    /\ d > 0 => ticks < MaxTicks
    /\ now' = now + d
    /\ ticks' = IF d > 0 THEN ticks + 1 ELSE ticks

\* PopNotePlugin.createOrOpenPopNote from its second getPopNoteWindow() on,
\* run at time t
Check(i, t) ==
    LET currentWindow == popNoteWindow
    IN  IF currentWindow # 0 /\ ~isDestroyed(currentWindow)
        THEN IF isVisible(currentWindow)
             THEN \* save the cursor, await saveSettings(), then hide
                  /\ Commit(saveCursorPositionFromLeaf(St))
                  /\ invs' = Put(invs, i, Inv("hideSave", currentWindow, 0, 0, "", {}))
                  /\ errors' = errors
                  /\ lastOp' = "hideSave"
                  /\ UNCHANGED <<files, pinnedNotes, lastCreatedNote>>
             ELSE IF ~shouldReuseLastNote(t)
             THEN BeginCreate(i, "hCreate", t)
             ELSE /\ Commit(showExistingWindow(St))
                  /\ Finish(i)
                  /\ lastOp' = "show"
                  /\ UNCHANGED <<files, pinnedNotes, lastCreatedNote>>
        ELSE IF shouldReuseLastNote(t) /\ getLastCreatedNote # 0
        THEN /\ ShowPopNoteWindow(i, getLastCreatedNote)
             /\ errors' = errors
             /\ lastOp' = "reuse"
             /\ UNCHANGED <<files, pinnedNotes, lastCreatedNote>>
        ELSE BeginCreate(i, "aCreate", t)

\* the global hotkey fires: createOrOpenPopNote runs.  With no window it
\* first sleeps 100 ms and then reads the window again; nothing it read before
\* the sleep is used after it, so a press that sleeps is a press 100 ms later,
\* and the handler is modelled from the second read on.
HotkeyPress(d) ==
    /\ presses < MaxPresses
    /\ Cardinality(DOMAIN invs) + Cardinality(timers) < MaxInFlight
    /\ presses' = presses + 1
    /\ Elapse(d)
    /\ Check(presses + 1, now')
    /\ UNCHANGED <<confVars, sessVars, geomVars, timers, events>>
    \* the visible branch saves the cursor and awaits saveSettings()
    /\ IF popNoteWindow # 0 /\ ~isDestroyed(popNoteWindow) /\ isVisible(popNoteWindow)
       THEN saveSettings ELSE UNCHANGED persisted

\* createOrOpenPopNote, visible branch, after await saveSettings(): hide()
HideAfterSave(i) ==
    /\ i \in DOMAIN invs /\ invs[i].pc = "hideSave"
    /\ LET currentWindow == invs[i].cw
       IN  IF isDestroyed(currentWindow)
           THEN Throw(i, "hide") /\ UNCHANGED wins
           ELSE Finish(i) /\ wins' = [wins EXCEPT ![currentWindow].state = "hidden"]
    /\ lastOp' = "hide"
    /\ UNCHANGED <<now, ticks, files, wmVars, trackVars, confVars, sessVars, geomVars,
                   timers, presses, events>>
    /\ UNCHANGED persisted

\* vault.create completes: createNewPopNote tracks the file and sets
\* lastCreatedNote, then awaits saveSettings()
CreateCompletes(i) ==
    /\ i \in DOMAIN invs /\ invs[i].pc \in {"hCreate", "aCreate"}
    /\ IF PathExists(invs[i].path)
       THEN /\ Throw(i, "create")
            /\ lastOp' = "createFailed"
            /\ UNCHANGED <<files, fileTracking, lastCreatedNote>>
       ELSE LET file == [path |-> invs[i].path, ctime |-> now, mtime |-> now,
                         exists |-> TRUE]
            IN  /\ files' = Append(files, file)
                /\ fileTracking' = trackFile(fileTracking, file)
                /\ lastCreatedNote' = <<[path |-> file.path, timestamp |-> now,
                                         fileId |-> getFileId(file)]>>
                /\ invs' = Put(invs, i, Inv(IF invs[i].pc = "hCreate" THEN "hSave" ELSE "aSave",
                                            0, Len(files) + 1, 0, "", {}))
                /\ errors' = errors
                /\ lastOp' = "created"
    /\ UNCHANGED <<now, ticks, wins, wmVars, cursorPositions, pinnedNotes, confVars, sessVars,
                   geomVars, timers, presses, events>>
    /\ IF PathExists(invs[i].path) THEN UNCHANGED persisted ELSE saveSettings

\* createNewPopNote's saveSettings() completes: the caller goes on, with
\* openFileInExistingWindow (hidden branch) or showPopNoteWindow (no window)
SaveCompletes(i) ==
    /\ i \in DOMAIN invs /\ invs[i].pc \in {"hSave", "aSave"}
    /\ IF invs[i].pc = "hSave"
       THEN IF popNoteWindow = 0 \/ isDestroyed(popNoteWindow)
            THEN Throw(i, "openFileInExistingWindow") /\ UNCHANGED <<wins, wmVars, fileTracking, cursorPositions>>
            ELSE \* the markdown leaf living in popNoteWindow becomes popNoteLeaf
                 /\ popNoteLeaf' = popNoteWindow
                 /\ invs' = Put(invs, i, Inv("hOpen", 0, invs[i].file, popNoteWindow, "", {}))
                 /\ errors' = errors
                 /\ UNCHANGED <<wins, popNoteWindow, currentFile, fileTracking, cursorPositions>>
       ELSE ShowPopNoteWindow(i, invs[i].file) /\ errors' = errors
    /\ lastOp' = "saved"
    /\ UNCHANGED <<now, ticks, files, pinnedNotes, lastCreatedNote, confVars, sessVars, geomVars,
                   timers, presses, events>>
    /\ UNCHANGED persisted

\* leaf.openFile completes and its caller runs to its end
OpenCompletes(i) ==
    /\ i \in DOMAIN invs /\ invs[i].pc \in {"hOpen", "cOpen", "sOpen"}
    /\ LET f == invs[i].file
           opened == [St EXCEPT !.wins = openFile(@, invs[i].leaf, f), !.currentFile = f]
       IN  CASE invs[i].pc = "hOpen" ->
                  \* openFileInExistingWindow is done; showExistingWindow()
                  IF opened.popNoteWindow = 0 \/ isDestroyed(opened.popNoteWindow)
                  THEN Commit(opened) /\ Throw(i, "showExistingWindow")
                       /\ timers' = timers /\ lastOp' = "showThrow"
                  ELSE Commit(showExistingWindow(opened)) /\ Finish(i)
                       /\ timers' = timers /\ lastOp' = "showNew"
             [] invs[i].pc = "cOpen" ->
                  \* createPopNoteWindowWithFile sets its settle timer and returns
                  /\ Commit(restoreCursorPosition(opened, f))
                  /\ timers' = timers \cup {[id |-> i, before |-> invs[i].before, file |-> f]}
                  /\ Finish(i)
                  /\ lastOp' = "requested"
             [] invs[i].pc = "sOpen" ->
                  \* showPopNoteWindow: restore the cursor, then show() and focus()
                  LET restored == restoreCursorPosition(opened, f)
                  IN  IF restored.popNoteWindow = 0 \/ isDestroyed(restored.popNoteWindow)
                      THEN Commit(restored) /\ Throw(i, "show")
                           /\ timers' = timers /\ lastOp' = "showThrow"
                      ELSE Commit([restored EXCEPT
                                      !.wins[restored.popNoteWindow].state = "visible",
                                      !.wins[restored.popNoteWindow].levelApplied =
                                          @ /\ isVisible(restored.popNoteWindow)])
                           /\ Finish(i) /\ timers' = timers /\ lastOp' = "opened"
    /\ UNCHANGED <<now, ticks, files, pinnedNotes, lastCreatedNote, confVars, sessVars, geomVars,
                   presses, events>>
    /\ UNCHANGED persisted

\* the settle timer of createPopNoteWindowWithFile: adopt the first listed
\* window that was not in the snapshot (the list's order is the host's)
SettleTimer(t) ==
    /\ t \in timers
    /\ timers' = timers \ {t}
    /\ LET fresh == getAllWindows \ t.before
       IN  IF fresh = {}
           THEN lastOp' = "notFound" /\ UNCHANGED <<wins, wmVars, restoreTimers>>
           ELSE \E newWindow \in fresh :
                  /\ popNoteWindow' = newWindow
                  /\ wins' = [wins EXCEPT ![newWindow].isPopNote = TRUE,
                                          ![newWindow].hClose = TRUE,
                                          ![newWindow].levelApplied = windowLevel # "normal",
                                          ![newWindow].hResize = @ \/ windowSizeMode = "remember",
                                          ![newWindow].hMove = @ \/ windowPosition = "last"]
                  \* cursorPosition 'last': restoreCursorPosition(file) in 100 ms
                  /\ restoreTimers' = IF cursorPosition = "last"
                                      THEN restoreTimers \cup {t.file} ELSE restoreTimers
                  /\ currentFile' = t.file
                  /\ popNoteLeaf' = popNoteLeaf
                  /\ lastOp' = "adopted"
    /\ UNCHANGED <<now, ticks, files, trackVars, confVars, geomVars, invs, presses,
                   events, errors, minVars, windowLevel, sortOrder, cursorPosition, createNoteHotkey,
                   registeredHotkeys, globalShortcut, lastNavigationTimestamp, mainWindow, reconnectTimer,
                   lastNav>>
    /\ UNCHANGED persisted

\* the 100 ms timer set by the settle timer under cursorPosition 'last'
RestoreTimer(f) ==
    /\ f \in restoreTimers
    /\ restoreTimers' = restoreTimers \ {f}
    /\ Commit(restoreCursorPosition(St, f))
    /\ lastOp' = "restoreTimer"
    /\ UNCHANGED <<now, ticks, files, pinnedNotes, lastCreatedNote, confVars, geomVars,
                   procVars, errors, minVars, windowLevel, sortOrder, cursorPosition, createNoteHotkey,
                   registeredHotkeys, globalShortcut, lastNavigationTimestamp, mainWindow, reconnectTimer,
                   lastNav>>
    /\ UNCHANGED persisted

\* the same, for a press that finds no handler in flight
QuietPress(d) ==
    /\ invs = <<>> /\ timers = {}
    /\ HotkeyPress(d)

\* the host lists the BrowserWindow of a requested popout
HostWindowAppears(w) ==
    /\ w \in DOMAIN wins /\ wins[w].state = "pending"
    /\ wins' = [wins EXCEPT ![w].state = "visible"]
    /\ lastOp' = "appeared"
    /\ UNCHANGED <<now, ticks, files, wmVars, trackVars, confVars, sessVars, geomVars, procVars, errors>>
    /\ UNCHANGED persisted

\* ------------------------------------------------- user and vault events
\* the user resizes the visible window: the 'resize' listener, attached when
\* windowSizeMode was 'remember' at adoption, stores the size and saves
UserResize(w, size) ==
    /\ events < MaxEvents
    /\ w \in DOMAIN wins /\ isVisible(w) /\ wins[w].size # size
    /\ events' = events + 1
    /\ wins' = [wins EXCEPT ![w].size = size]
    /\ lastUsedWindowSize' = IF wins[w].hResize THEN size ELSE lastUsedWindowSize
    /\ lastOp' = "resize"
    /\ UNCHANGED <<now, ticks, files, wmVars, trackVars, confVars, sessVars, lastWindowPosition,
                   invs, timers, presses, errors>>
    /\ IF wins[w].hResize THEN saveSettings ELSE UNCHANGED persisted

\* the user moves the visible window: the 'move' listener, attached when
\* windowPosition was 'last' at adoption, stores the position and saves
UserMove(w, pos) ==
    /\ events < MaxEvents
    /\ w \in DOMAIN wins /\ isVisible(w) /\ wins[w].pos # pos
    /\ events' = events + 1
    /\ wins' = [wins EXCEPT ![w].pos = pos]
    /\ lastWindowPosition' = IF wins[w].hMove THEN pos ELSE lastWindowPosition
    /\ lastOp' = "move"
    /\ UNCHANGED <<now, ticks, files, wmVars, trackVars, confVars, sessVars, lastUsedWindowSize,
                   invs, timers, presses, errors>>
    /\ IF wins[w].hMove THEN saveSettings ELSE UNCHANGED persisted

\* the settings tab, 'Window size mode': the setting is stored and saved
SetWindowSizeMode(value) ==
    /\ events < MaxEvents
    /\ value # windowSizeMode
    /\ events' = events + 1
    /\ windowSizeMode' = value
    /\ lastOp' = "setSizeMode"
    /\ UNCHANGED <<hostVars, wmVars, trackVars, bufferTime, windowPosition, sessVars,
                   geomVars, invs, timers, presses, errors>>
    /\ saveSettings

\* the settings tab, 'Window position': the setting is stored and saved
SetWindowPosition(value) ==
    /\ events < MaxEvents
    /\ value # windowPosition
    /\ events' = events + 1
    /\ windowPosition' = value
    /\ lastOp' = "setPosition"
    /\ UNCHANGED <<hostVars, wmVars, trackVars, bufferTime, windowSizeMode, sessVars,
                   geomVars, invs, timers, presses, errors>>
    /\ saveSettings

\* the user closes the visible window: the 'close' listener prevents the
\* close, hides the window and saves the cursor; a window without the
\* listener is destroyed
UserClose(w) ==
    /\ events < MaxEvents
    /\ w \in DOMAIN wins /\ isVisible(w)
    /\ events' = events + 1
    /\ IF wins[w].hClose
       THEN Commit(saveCursorPositionFromLeaf([St EXCEPT !.wins[w].state = "hidden"]))
       ELSE Commit([St EXCEPT !.wins[w].state = "destroyed"])
    /\ lastOp' = "close"
    /\ UNCHANGED <<now, ticks, files, pinnedNotes, lastCreatedNote, confVars, sessVars, geomVars,
                   invs, timers, presses, errors>>
    /\ UNCHANGED persisted

\* the user moves the editor cursor in the visible window
UserMoveCursor(w, c) ==
    /\ events < MaxEvents
    /\ w \in DOMAIN wins /\ isVisible(w) /\ wins[w].file # 0 /\ wins[w].cursor # c
    /\ events' = events + 1
    /\ wins' = [wins EXCEPT ![w].cursor = c]
    /\ lastOp' = "cursor"
    /\ UNCHANGED <<now, ticks, files, wmVars, trackVars, confVars, sessVars, geomVars,
                   invs, timers, presses, errors>>
    /\ UNCHANGED persisted

\* setupEventHandlers, vault 'delete': a note is deleted in the vault (not
\* through the plugin); the handler clears its cursor position and saves
VaultDelete(f) ==
    /\ events < MaxEvents
    /\ f \in DOMAIN files /\ files[f].exists
    /\ events' = events + 1
    /\ files' = [files EXCEPT ![f].exists = FALSE]
    /\ cursorPositions' = clearCursorPosition(cursorPositions, files[f].path)
    /\ lastOp' = "delete"
    /\ UNCHANGED <<now, ticks, wins, wmVars, fileTracking, pinnedNotes, lastCreatedNote,
                   confVars, sessVars, geomVars, invs, timers, presses, errors>>
    /\ saveSettings

\* the cursor part of the rename handler, without clearing the old path
migrateCursorKeepsOld(cp, oldPath, newPath) ==
    LET cursorPos == getCursorPosition(cp, oldPath)
    IN  IF cursorPos # "" THEN saveCursorPosition(cp, newPath, cursorPos)
        ELSE cp

\* setupEventHandlers, vault 'rename', the cursor part: the position saved
\* for the old path moves to the new path
migrateCursor(cp, oldPath, newPath) ==
    LET cursorPos == getCursorPosition(cp, oldPath)
    IN  IF cursorPos # ""
        THEN saveCursorPosition(clearCursorPosition(cp, oldPath), newPath, cursorPos)
        ELSE cp

\* setupEventHandlers, vault 'rename': a note is renamed or moved in the
\* vault; the TFile carries the new path, the handler updates the tracking
\* and the cursor positions and saves
VaultRename(f, newPath) ==
    /\ events < MaxEvents
    /\ f \in DOMAIN files /\ files[f].exists /\ ~PathExists(newPath)
    /\ events' = events + 1
    /\ files' = [files EXCEPT ![f].path = newPath]
    /\ fileTracking' = updateFilePath(fileTracking, files[f].path, newPath)
    /\ cursorPositions' = migrateCursor(cursorPositions, files[f].path, newPath)
    /\ lastOp' = "rename"
    /\ UNCHANGED <<now, ticks, wins, wmVars, pinnedNotes, lastCreatedNote,
                   confVars, sessVars, geomVars, invs, timers, presses, errors>>
    /\ saveSettings

\* PopNotePlugin.togglePinNote, from the picker, on a listed note
TogglePin(f) ==
    /\ events < MaxEvents
    /\ f \in DOMAIN files /\ files[f].exists
    /\ events' = events + 1
    /\ LET index == IndexOf(pinnedNotes, files[f].path)
       IN  pinnedNotes' = IF index > 0 THEN RemoveAt(pinnedNotes, index)
                          ELSE Append(pinnedNotes, files[f].path)
    /\ lastOp' = "pin"
    /\ UNCHANGED <<now, ticks, files, wins, wmVars, fileTracking, cursorPositions,
                   lastCreatedNote, confVars, sessVars, geomVars, invs, timers, presses, errors>>
    /\ saveSettings

\* PopNotePlugin.deletePopNote, from the picker, on a listed note while no
\* other handler is running: vault.delete removes the file and fires the
\* 'delete' handler, then the cursor position is cleared and the settings saved
DeletePopNote(f) ==
    /\ events < MaxEvents
    /\ invs = <<>> /\ timers = {}
    /\ f \in DOMAIN files /\ files[f].exists
    /\ events' = events + 1
    /\ files' = [files EXCEPT ![f].exists = FALSE]
    /\ cursorPositions' = clearCursorPosition(
                              clearCursorPosition(cursorPositions, files[f].path),
                              files[f].path)
    /\ lastOp' = "deletePopNote"
    /\ UNCHANGED <<now, ticks, wins, wmVars, fileTracking, pinnedNotes, lastCreatedNote,
                   confVars, sessVars, geomVars, invs, timers, presses, errors>>
    /\ saveSettings

\* ------------------------------------------------------------ navigation
\* the time getPopNotesSorted sorts by
SortTime(f) == IF sortOrder = "created" THEN files[f].ctime ELSE files[f].mtime

\* the markdown files of the PopNotes folder (every note of the vault here)
PopNotes == {f \in DOMAIN files : files[f].exists}

\* files.sort((a, b) => timeB - timeA): newest first, and the stable sort
\* leaves notes of equal time in the folder's order (the order of creation)
SortsBefore(a, b) ==
    SortTime(a) > SortTime(b) \/ (SortTime(a) = SortTime(b) /\ a < b)

\* PopNotePlugin.getPopNotesSorted
getPopNotesSorted ==
    [i \in 1..Cardinality(PopNotes) |->
        CHOOSE f \in PopNotes :
            Cardinality({g \in PopNotes : SortsBefore(g, f)}) = i - 1]

\* notes.findIndex(n => n.path === currentFile.path), 1-based, 0 for -1
CurrentIndex ==
    IF currentFile = 0 THEN 0
    ELSE LET notes == getPopNotesSorted
             hits == {i \in DOMAIN notes : files[notes[i]].path = files[currentFile].path}
         IN  IF hits = {} THEN 0 ELSE CHOOSE i \in hits : \A j \in hits : i <= j

\* navigateToPreviousPopNote / navigateToNextPopNote -> navigatePopNote
Direction(dir) == IF dir = "previous" THEN -1 ELSE 1

\* PopNotePlugin.navigatePopNote, a command run while no other handler is
\* running, up to its await saveSettings(); showPopNoteWindow(targetNote)
\* follows once the save completes
Navigate(dir, d) ==
    /\ events < MaxEvents
    /\ invs = <<>> /\ timers = {}
    /\ events' = events + 1
    /\ Elapse(d)
    /\ IF now' - lastNavigationTimestamp < NavThrottleMs
       THEN /\ lastOp' = dir \o "Throttled"
            /\ UNCHANGED <<wins, wmVars, fileTracking, cursorPositions, invs,
                           lastNavigationTimestamp, lastNav>>
       ELSE /\ lastNavigationTimestamp' = now'
            /\ lastNav' = <<[dir |-> dir, index |-> CurrentIndex, time |-> now']>>
            /\ IF currentFile = 0
               THEN /\ lastOp' = dir \o "NoticeNoFile"
                    /\ UNCHANGED <<wins, wmVars, fileTracking, cursorPositions, invs>>
               ELSE IF CurrentIndex = 0
               THEN /\ lastOp' = dir \o "NoticeNotPopNote"
                    /\ UNCHANGED <<wins, wmVars, fileTracking, cursorPositions, invs>>
               ELSE LET notes == getPopNotesSorted
                        stepped == CurrentIndex + Direction(dir)
                        newIndex == IF stepped < 1 THEN Len(notes)
                                    ELSE IF stepped > Len(notes) THEN 1
                                    ELSE stepped
                        targetNote == notes[newIndex]
                    IN  /\ Commit(saveCursorPositionFromLeaf(St))
                        /\ invs' = Put(invs, 0, Inv("aSave", 0, targetNote, 0, "", {}))
                        /\ lastOp' = dir
    /\ UNCHANGED <<files, pinnedNotes, lastCreatedNote, confVars, geomVars, timers,
                   presses, errors, minVars, windowLevel, sortOrder, cursorPosition, createNoteHotkey,
                   registeredHotkeys, globalShortcut, restoreTimers, mainWindow, reconnectTimer>>
    \* saveCursorPositionFromLeaf(), then await saveSettings()
    /\ IF now' - lastNavigationTimestamp >= NavThrottleMs /\ currentFile # 0 /\ CurrentIndex # 0
       THEN saveSettings ELSE UNCHANGED persisted

\* the user edits a note: the host sets its mtime
UserEdit(f) ==
    /\ events < MaxEvents
    /\ f \in DOMAIN files /\ files[f].exists /\ files[f].mtime # now
    /\ events' = events + 1
    /\ files' = [files EXCEPT ![f].mtime = now]
    /\ lastOp' = "edit"
    /\ UNCHANGED <<now, ticks, wins, wmVars, trackVars, confVars, sessVars, geomVars,
                   invs, timers, presses, errors>>
    /\ UNCHANGED persisted

\* ---------------------------------------------------- the global hotkey
\* an accelerator is the sequence of its pieces, "+" being the separator
\* character: 'Ctrl+' is <<"Ctrl", "+">>, 'Cmd+Cmd' is <<"Cmd", "+", "Cmd">>
validModifiers ==
    {"Command", "Cmd", "Control", "Ctrl", "CommandOrControl", "CmdOrCtrl",
     "Alt", "Option", "AltGr", "Shift", "Super", "Meta"}

\* String.prototype.split('+')
RECURSIVE split(_)
split(h) ==
    IF \A i \in DOMAIN h : h[i] # "+" THEN <<h>>
    ELSE LET k == CHOOSE i \in DOMAIN h :
                     h[i] = "+" /\ \A j \in 1..(i - 1) : h[j] # "+"
         IN  <<SubSeq(h, 1, k - 1)>> \o split(SubSeq(h, k + 1, Len(h)))

\* validModifiers.includes(part)
IsModifier(part) == Len(part) = 1 /\ part[1] \in validModifiers

\* HotkeyManager.isValidHotkey
isValidHotkey(hotkey) ==
    IF hotkey = <<>> THEN FALSE
    ELSE LET parts == split(hotkey)
         IN  IF Len(parts) < 2 THEN FALSE
             ELSE LET hasModifier == \E i \in 1..(Len(parts) - 1) : IsModifier(parts[i])
                      key == parts[Len(parts)]
                      hasValidKey == Len(key) > 0
                  IN  hasModifier /\ hasValidKey

\* the pieces accelerators are made of here: modifiers, keys, the separator
AccelPieces == {"Ctrl", "Cmd", "Space", "P", "+"}

\* the accelerators a data.json can hold, up to MaxHotkeyLen pieces
Accelerators == UNION {[1..n -> AccelPieces] : n \in 0..MaxHotkeyLen}

\* the HotkeyManager and the host's table, with what the last call returned
\* and whether it showed a Notice
Hm == [registeredHotkeys |-> registeredHotkeys, globalShortcut |-> globalShortcut,
       success |-> FALSE, notice |-> FALSE]

\* what globalShortcut.register does: returns true, returns false, throws
RegisterOutcomes == {"true", "false", "throws"}

\* HotkeyManager.unregisterAll
unregisterAll(hm) ==
    [hm EXCEPT !.globalShortcut = @ \ Range(hm.registeredHotkeys),
               !.registeredHotkeys = <<>>]

\* registerGlobalHotkey with the accelerator recorded before register is
\* called
registerGlobalHotkeyPushesFirst(hm, hotkey, outcome) ==
    LET cleared == unregisterAll(hm)
    IN  IF hotkey = <<>> \/ ~isValidHotkey(hotkey) THEN cleared
        ELSE LET host == cleared.globalShortcut \ {hotkey}
                 pushed == Append(cleared.registeredHotkeys, hotkey)
             IN  IF outcome = "true"
                 THEN [registeredHotkeys |-> pushed, globalShortcut |-> host \cup {hotkey},
                       success |-> TRUE, notice |-> FALSE]
                 ELSE [registeredHotkeys |-> pushed, globalShortcut |-> host,
                       success |-> FALSE, notice |-> TRUE]

\* HotkeyManager.registerGlobalHotkey(hotkey, callback), for each outcome of
\* globalShortcut.register (the Notice of a success is shown in debug mode only)
registerGlobalHotkey(hm, hotkey, outcome) ==
    LET cleared == unregisterAll(hm)
    IN  IF hotkey = <<>> \/ ~isValidHotkey(hotkey) THEN cleared
        ELSE LET host == cleared.globalShortcut \ {hotkey}
             IN  IF outcome = "true"
                 THEN [registeredHotkeys |-> Append(cleared.registeredHotkeys, hotkey),
                       globalShortcut |-> host \cup {hotkey},
                       success |-> TRUE, notice |-> FALSE]
                 ELSE [registeredHotkeys |-> cleared.registeredHotkeys,
                       globalShortcut |-> host,
                       success |-> FALSE, notice |-> TRUE]

\* onload with createNoteHotkey = hotkey in data.json: loadSettings, then
\* registerGlobalHotkeys, which registers an accelerator that isValidHotkey
\* accepts; globalShortcut.register may refuse it (the outcome is the host's)
LoadHotkey(hotkey) ==
    /\ hotkey # createNoteHotkey
    /\ createNoteHotkey' = hotkey
    /\ \E outcome \in RegisterOutcomes :
         LET hm == IF hotkey # <<>> /\ isValidHotkey(hotkey)
                   THEN registerGlobalHotkey(unregisterAll(Hm), hotkey, outcome)
                   ELSE unregisterAll(Hm)
         IN  /\ registeredHotkeys' = hm.registeredHotkeys
             /\ globalShortcut' = hm.globalShortcut
             /\ lastOp' = IF hm.notice THEN "hotkeyRefused" ELSE "loadHotkey"
    /\ UNCHANGED <<hostVars, wmVars, trackVars, confVars, geomVars, procVars, errors,
                   minVars, windowLevel, sortOrder, cursorPosition, lastNavigationTimestamp, restoreTimers,
                   mainWindow, reconnectTimer, lastNav>>
    /\ saveSettings

\* ------------------------------------------------------- the main window
\* WindowManager.cleanupPopNoteWindows: the leaf is detached, the window is
\* hidden, loses its listeners and is closed, the references are cleared
cleanupPopNoteWindows(s) ==
    LET w == s.popNoteWindow
        ws == IF w # 0 /\ s.wins[w].state # "destroyed"
              THEN [s.wins EXCEPT ![w].state = "destroyed", ![w].hClose = FALSE,
                                  ![w].hResize = FALSE, ![w].hMove = FALSE]
              ELSE s.wins
    IN  [s EXCEPT !.wins = ws, !.popNoteWindow = 0, !.popNoteLeaf = 0,
                  !.currentFile = 0]

\* WindowManager.closeAllPopNoteWindowsForVault: of the listed windows marked
\* isPopNote, the tracked one is cleaned up and the others get close(), which
\* their 'close' listener, if they have one, turns into hide and a cursor save
closeAllPopNoteWindowsForVault(s) ==
    LET marked == {w \in DOMAIN s.wins :
                     s.wins[w].state \in {"visible", "hidden"} /\ s.wins[w].isPopNote}
        others == marked \ {s.popNoteWindow}
        closed == [w \in DOMAIN s.wins |->
                     IF w \in others
                     THEN [s.wins[w] EXCEPT !.state = IF s.wins[w].hClose THEN "hidden"
                                                      ELSE "destroyed"]
                     ELSE s.wins[w]]
        s1 == [s EXCEPT !.wins = closed]
        s2 == IF s.popNoteWindow \in marked THEN cleanupPopNoteWindows(s1) ELSE s1
    IN  IF \E w \in others : s.wins[w].hClose
        THEN saveCursorPositionFromLeaf(s2) ELSE s2

\* registerMainWindowCloseHandler, the main window's 'close' listener: the
\* user closes the main window
MainWindowClose ==
    /\ mainWindow = "open"
    /\ mainWindow' = "closed"
    /\ Commit(closeAllPopNoteWindowsForVault(St))
    /\ lastOp' = "mainClose"
    /\ UNCHANGED <<now, ticks, files, pinnedNotes, lastCreatedNote, confVars, geomVars,
                   procVars, errors, minVars, windowLevel, sortOrder, cursorPosition, createNoteHotkey,
                   registeredHotkeys, globalShortcut, lastNavigationTimestamp, restoreTimers, reconnectTimer,
                   lastNav>>
    /\ UNCHANGED persisted

\* ---------------------------------------------------------- the restart
\* Obsidian is restarted and onload runs again over the saved settings: the
\* plugin's fields are fresh, the handlers that were running are gone, and
\* the host either restores the popouts of the saved workspace, as new
\* BrowserWindows without markers and listeners, or does not
Restart ==
    /\ events < MaxEvents
    /\ events' = events + 1
    /\ \E d \in UserDeltas : Elapse(d)
    /\ \E keep \in BOOLEAN :
         wins' = [w \in DOMAIN wins |->
                    [wins[w] EXCEPT
                       !.state = IF keep /\ wins[w].state \in {"visible", "hidden"}
                                 THEN "visible" ELSE "destroyed",
                       !.restored = keep /\ wins[w].state \in {"visible", "hidden"},
                       !.isPopNote = FALSE, !.hClose = FALSE,
                       !.hResize = FALSE, !.hMove = FALSE]]
    /\ popNoteWindow' = 0 /\ popNoteLeaf' = 0 /\ currentFile' = 0
    /\ invs' = <<>> /\ timers' = {} /\ restoreTimers' = {}
    /\ lastNavigationTimestamp' = 0
    /\ registeredHotkeys' = IF isValidHotkey(createNoteHotkey)
                            THEN <<createNoteHotkey>> ELSE <<>>
    /\ globalShortcut' = Range(registeredHotkeys')
    /\ mainWindow' = "open"
    /\ reconnectTimer' = TRUE
    /\ lastOp' = "restart"
    \* loadSettings: the settings are the saved document
    /\ fileTracking' = persisted.fileTracking
    /\ cursorPositions' = persisted.cursorPositions
    /\ pinnedNotes' = persisted.pinnedNotes
    /\ lastCreatedNote' = persisted.lastCreatedNote
    /\ lastUsedWindowSize' = persisted.lastUsedWindowSize
    /\ lastWindowPosition' = persisted.lastWindowPosition
    /\ UNCHANGED <<files, confVars, presses, errors, minVars, windowLevel, sortOrder,
                   cursorPosition, createNoteHotkey, lastNav, persisted>>

\* reconnectExistingPopNoteWindows, its timer 1 s after onload: the windows
\* are listed and logged, none is taken over
ReconnectTimer ==
    /\ reconnectTimer
    /\ reconnectTimer' = FALSE
    /\ lastOp' = "reconnect"
    /\ UNCHANGED <<hostVars, wmVars, trackVars, confVars, geomVars, procVars, errors,
                   minVars, windowLevel, sortOrder, cursorPosition, createNoteHotkey, registeredHotkeys, globalShortcut,
                   lastNavigationTimestamp, restoreTimers, mainWindow, lastNav>>
    /\ UNCHANGED persisted

\* --------------------------------- the main window minimized (main.ts)
\* the auto-minimize feature exists in main.ts only; its state is the
\* plugin's minimize fields, the main window and the popout of main.ts
restVars == <<hostVars, wmVars, trackVars, confVars, geomVars, procVars, errors,
              windowLevel, sortOrder, cursorPosition, createNoteHotkey, registeredHotkeys, globalShortcut,
              lastNavigationTimestamp, restoreTimers, reconnectTimer, lastNav, persisted>>

\* scheduleMainWindowMinimize with the 'dynamic' test left out
scheduleMainWindowMinimizeAnyMode(wasMainWindowVisible) ==
    autoMinimizeMode # "off"

\* main.ts scheduleMainWindowMinimize: whether minimizeScheduled is set
scheduleMainWindowMinimize(wasMainWindowVisible) ==
    IF autoMinimizeMode = "off" THEN FALSE
    ELSE IF autoMinimizeMode = "dynamic" /\ wasMainWindowVisible THEN FALSE
    ELSE TRUE

\* main.ts createPopNoteWindowWithFile, called with no popout: the visibility
\* of the main window is recorded and the popout is requested
CreatePopout ==
    /\ popout = "absent"
    /\ mainWindowWasVisible' = (mainWindow = "open")
    /\ popout' = "created"
    /\ lastOp' = "popoutCreate"
    /\ UNCHANGED <<restVars, shouldCreateNewNote, activeFile, autoMinimizeMode, minimizeScheduled, minimizeTimeouts,
                   mainWindow>>

\* main.ts createPopNoteWindowWithFile, the 500 ms timer: the window becomes
\* popNoteWindow and setupWindowEventListeners attaches the 'close' listener
AdoptPopout ==
    /\ popout = "created"
    /\ popout' = "visible"
    /\ lastOp' = "popoutAdopt"
    /\ UNCHANGED <<restVars, shouldCreateNewNote, activeFile, autoMinimizeMode, mainWindowWasVisible, minimizeScheduled,
                   minimizeTimeouts, mainWindow>>

\* main.ts createOrOpenPopNote with a live popNoteWindow: hide() when
\* visible, show() when hidden
TogglePopout ==
    /\ popout \in {"visible", "hidden"}
    /\ popout' = IF popout = "visible" THEN "hidden" ELSE "visible"
    /\ lastOp' = "popoutToggle"
    /\ UNCHANGED <<restVars, shouldCreateNewNote, activeFile, autoMinimizeMode, mainWindowWasVisible, minimizeScheduled,
                   minimizeTimeouts, mainWindow>>

\* the user closes the popout. main.ts setupWindowEventListeners ('close'):
\* the close is prevented, the window hidden and, unless the mode is 'off',
\* scheduleMainWindowMinimize(mainWindowWasVisible) runs; a popout that has
\* no listener yet is destroyed
ClosePopout ==
    /\ popout \in {"created", "visible"}
    /\ minimizeTimeouts < MaxInFlight
    /\ IF popout = "created"
       THEN popout' = "absent" /\ UNCHANGED <<minimizeScheduled, minimizeTimeouts>>
       ELSE /\ popout' = "hidden"
            /\ IF autoMinimizeMode # "off" /\ scheduleMainWindowMinimize(mainWindowWasVisible)
               THEN minimizeScheduled' = TRUE /\ minimizeTimeouts' = minimizeTimeouts + 1
               ELSE UNCHANGED <<minimizeScheduled, minimizeTimeouts>>
    /\ lastOp' = "popoutClose"
    /\ UNCHANGED <<restVars, shouldCreateNewNote, activeFile, autoMinimizeMode, mainWindowWasVisible, mainWindow>>

\* main.ts onload, the 100 ms interval, when minimizeScheduled is set:
\* checkAndMinimizeMainWindow minimizes the main window if it is visible
MinimizeInterval ==
    /\ minimizeScheduled
    /\ mainWindow = "open"
    /\ mainWindow' = "minimized"
    /\ minimizeScheduled' = FALSE
    /\ lastOp' = "minimized"
    /\ UNCHANGED <<restVars, shouldCreateNewNote, activeFile, autoMinimizeMode, mainWindowWasVisible, minimizeTimeouts,
                   popout>>

\* main.ts scheduleMainWindowMinimize, its 3 s timeout
MinimizeTimeout ==
    /\ minimizeTimeouts > 0
    /\ minimizeTimeouts' = minimizeTimeouts - 1
    /\ minimizeScheduled' = FALSE
    /\ lastOp' = "minimizeTimeout"
    /\ UNCHANGED <<restVars, shouldCreateNewNote, activeFile, autoMinimizeMode, mainWindowWasVisible, mainWindow, popout>>

\* the user hides or minimizes the main window, or brings it back
UserMainWindow(state) ==
    /\ mainWindow \in {"open", "hidden", "minimized"}
    /\ state # mainWindow
    /\ mainWindow' = state
    /\ lastOp' = "main"
    /\ UNCHANGED <<restVars, shouldCreateNewNote, activeFile, autoMinimizeMode, mainWindowWasVisible, minimizeScheduled,
                   minimizeTimeouts, popout>>

\* DEFAULT_SETTINGS.sortOrder and DEFAULT_SETTINGS.cursorPosition
Defaults ==
    /\ sortOrder = "modified"
    /\ cursorPosition = "start"
    /\ autoMinimizeMode = "dynamic"
    /\ windowLevel = "screen-saver"

\* the plugin right after onload, with no window and nothing in flight
Loaded ==
    /\ now = StartTime
    /\ ticks = 0
    /\ wins = <<>>
    /\ popNoteWindow = 0
    /\ popNoteLeaf = 0
    /\ currentFile = 0
    /\ cursorPositions = <<>>
    /\ pinnedNotes = <<>>
    /\ lastUsedWindowSize = NoSize
    /\ lastWindowPosition = NoPos
    /\ invs = <<>>
    /\ timers = {}
    /\ presses = 0
    /\ events = 0
    /\ createNoteHotkey = DefaultHotkey
    /\ registeredHotkeys = <<DefaultHotkey>>
    /\ globalShortcut = {DefaultHotkey}
    /\ lastNavigationTimestamp = 0
    /\ restoreTimers = {}
    /\ mainWindow = "open"
    /\ reconnectTimer = FALSE
    /\ mainWindowWasVisible = FALSE
    /\ minimizeScheduled = FALSE
    /\ minimizeTimeouts = 0
    /\ popout = "absent"
    /\ shouldCreateNewNote = FALSE
    /\ activeFile = 0
    /\ lastNav = <<>>
    /\ lastOp = "init"
    /\ errors = {}

\* a first load (DEFAULT_SETTINGS) into an empty PopNotes folder, under any
\* buffer policy
Init ==
    /\ Loaded
    /\ Defaults
    /\ files = <<>>
    /\ fileTracking = [fileIdToPath |-> <<>>, pathToFileId |-> <<>>]
    /\ lastCreatedNote = <<>>
    /\ bufferTime \in BufferTimes
    /\ windowSizeMode = "fixed"
    /\ windowPosition = "center"
    /\ persisted = settings

Next ==
    \/ \E d \in Deltas : HotkeyPress(d)
    \/ \E i \in DOMAIN invs : HideAfterSave(i)
    \/ \E i \in DOMAIN invs : CreateCompletes(i)
    \/ \E i \in DOMAIN invs : SaveCompletes(i)
    \/ \E i \in DOMAIN invs : OpenCompletes(i)
    \/ \E t \in timers : SettleTimer(t)
    \/ \E w \in DOMAIN wins : HostWindowAppears(w)

Spec == Init /\ [][Next]_vars

\* the segments of the running handlers
Continue ==
    \/ \E i \in DOMAIN invs : HideAfterSave(i)
    \/ \E i \in DOMAIN invs : CreateCompletes(i)
    \/ \E i \in DOMAIN invs : SaveCompletes(i)
    \/ \E i \in DOMAIN invs : OpenCompletes(i)
    \/ \E t \in timers : SettleTimer(t)
    \/ \E w \in DOMAIN wins : HostWindowAppears(w)

\* one user at the window: presses that do not overlap, any size and position
\* policy, and the user's resizes, moves and closes
InitUser ==
    /\ Loaded
    /\ Defaults
    /\ files = <<>>
    /\ fileTracking = [fileIdToPath |-> <<>>, pathToFileId |-> <<>>]
    /\ lastCreatedNote = <<>>
    /\ bufferTime \in BufferTimes
    /\ windowSizeMode \in {"fixed", "remember"}
    /\ windowPosition \in {"center", "last"}
    /\ persisted = settings

NextUser ==
    \/ \E d \in UserDeltas : QuietPress(d)
    \/ Continue
    \/ \E w \in DOMAIN wins, size \in Sizes : UserResize(w, size)
    \/ \E w \in DOMAIN wins, pos \in Positions : UserMove(w, pos)
    \/ \E w \in DOMAIN wins : UserClose(w)

SpecUser == InitUser /\ [][NextUser]_vars

\* the reuse decision around the end of a buffer of 5 minutes
InitBuffer ==
    /\ Loaded
    /\ Defaults
    /\ files = <<>>
    /\ fileTracking = [fileIdToPath |-> <<>>, pathToFileId |-> <<>>]
    /\ lastCreatedNote = <<>>
    /\ bufferTime = "5"
    /\ windowSizeMode = "fixed"
    /\ windowPosition = "center"
    /\ persisted = settings

NextBuffer ==
    \/ \E d \in BufferDeltas : QuietPress(d)
    \/ Continue
    \/ \E f \in DOMAIN files : VaultDelete(f)

SpecBuffer == InitBuffer /\ [][NextBuffer]_vars

\* the notes of the PopNotes folder: presses that do not overlap, cursor
\* moves, renames, pins and deletions from the picker
NextTrack ==
    \/ \E d \in Deltas : QuietPress(d)
    \/ Continue
    \/ \E w \in DOMAIN wins, c \in Cursors : UserMoveCursor(w, c)
    \/ \E f \in DOMAIN files, newPath \in RenameTargets : VaultRename(f, newPath)
    \/ \E f \in DOMAIN files : TogglePin(f)
    \/ \E f \in DOMAIN files : DeletePopNote(f)

SpecTrack == Init /\ [][NextTrack]_vars

\* three notes of earlier sessions in the PopNotes folder, each edited since
\* its creation or not, the last one being the plugin's last created note
OldNote(n, edited) ==
    [path |-> "PopNotes/Old " \o ToString(n) \o ".md", ctime |-> 100 * n,
     mtime |-> IF edited THEN 1000 - 100 * n ELSE 100 * n, exists |-> TRUE]

InitNav ==
    /\ Loaded
    /\ sortOrder \in {"created", "modified"}
    /\ cursorPosition = "start"
    /\ autoMinimizeMode = "dynamic"
    /\ windowLevel = "screen-saver"
    /\ \E e1, e2, e3 \in BOOLEAN :
          files = <<OldNote(1, e1), OldNote(2, e2), OldNote(3, e3)>>
    /\ fileTracking = trackFile(trackFile(trackFile(
                          [fileIdToPath |-> <<>>, pathToFileId |-> <<>>],
                          files[1]), files[2]), files[3])
    /\ lastCreatedNote = <<[path |-> files[3].path, timestamp |-> files[3].ctime,
                            fileId |-> getFileId(files[3])]>>
    /\ bufferTime \in {"permanent", "none"}
    /\ windowSizeMode = "fixed"
    /\ windowPosition = "center"
    /\ persisted = settings

\* the notes list: presses that do not overlap, the navigation commands,
\* pins and edits
NextNav ==
    \/ \E d \in UserDeltas : QuietPress(d)
    \/ Continue
    \/ \E dir \in {"previous", "next"}, d \in NavDeltas : Navigate(dir, d)
    \/ \E f \in DOMAIN files : TogglePin(f)
    \/ \E f \in DOMAIN files : UserEdit(f)

SpecNav == InitNav /\ [][NextNav]_vars

\* the popout and the main window: presses, overlapping or not, and the
\* user closing the main window
NextMain ==
    \/ \E d \in UserDeltas : HotkeyPress(d)
    \/ Continue
    \/ MainWindowClose

SpecMain == Init /\ [][NextMain]_vars

\* the cursor placement: a first load under cursorPosition 'start' or 'last'
InitCursor ==
    /\ Loaded
    /\ sortOrder = "modified"
    /\ cursorPosition \in {"start", "last"}
    /\ autoMinimizeMode = "dynamic"
    /\ windowLevel = "screen-saver"
    /\ files = <<>>
    /\ fileTracking = [fileIdToPath |-> <<>>, pathToFileId |-> <<>>]
    /\ lastCreatedNote = <<>>
    /\ bufferTime \in BufferTimes
    /\ windowSizeMode = "fixed"
    /\ windowPosition = "center"
    /\ persisted = settings

NextCursor ==
    \/ \E d \in UserDeltas : restoreTimers = {} /\ QuietPress(d)
    \/ Continue
    \/ \E f \in restoreTimers : RestoreTimer(f)
    \/ \E w \in DOMAIN wins, c \in Cursors : UserMoveCursor(w, c)

SpecCursor == InitCursor /\ [][NextCursor]_vars

\* the hotkey setting: the plugin is loaded with one accelerator after another
NextHotkey == \E hotkey \in Accelerators : LoadHotkey(hotkey)

SpecHotkey == Init /\ [][NextHotkey]_vars

\* sessions: presses that do not overlap, restarts and the reconnect timer
NextRestart ==
    \/ \E d \in UserDeltas : QuietPress(d)
    \/ Continue
    \/ Restart
    \/ ReconnectTimer

SpecRestart == Init /\ [][NextRestart]_vars

\* the geometry policies changed while the popout exists: presses that do
\* not overlap, resizes, moves and the two settings
NextPolicy ==
    \/ \E d \in UserDeltas : QuietPress(d)
    \/ Continue
    \/ \E w \in DOMAIN wins, size \in Sizes : UserResize(w, size)
    \/ \E w \in DOMAIN wins, pos \in Positions : UserMove(w, pos)
    \/ \E value \in {"fixed", "remember"} : SetWindowSizeMode(value)
    \/ \E value \in {"center", "last"} : SetWindowPosition(value)

SpecPolicy == InitUser /\ [][NextPolicy]_vars

\* main.ts, the main window and the popout under each auto-minimize mode
InitMinimize ==
    /\ Loaded
    /\ sortOrder = "modified"
    /\ cursorPosition = "start"
    /\ autoMinimizeMode \in {"off", "dynamic", "always"}
    /\ windowLevel = "screen-saver"
    /\ files = <<>>
    /\ fileTracking = [fileIdToPath |-> <<>>, pathToFileId |-> <<>>]
    /\ lastCreatedNote = <<>>
    /\ bufferTime = "permanent"
    /\ windowSizeMode = "fixed"
    /\ windowPosition = "center"
    /\ persisted = settings

NextMinimize ==
    \/ CreatePopout
    \/ AdoptPopout
    \/ TogglePopout
    \/ ClosePopout
    \/ MinimizeInterval
    \/ MinimizeTimeout
    \/ \E state \in {"open", "hidden", "minimized"} : UserMainWindow(state)

SpecMinimize == InitMinimize /\ [][NextMinimize]_vars

\* the identity index: presses a quarter of a second apart, so that two
\* notes can be created within one clock second, renames and deletions
IndexDeltas == {250}

NextIndex ==
    \/ \E d \in IndexDeltas : QuietPress(d)
    \/ Continue
    \/ \E f \in DOMAIN files, newPath \in RenameTargets : VaultRename(f, newPath)
    \/ \E f \in DOMAIN files : DeletePopNote(f)
    \/ \E f \in DOMAIN files : VaultDelete(f)

SpecIndex == Init /\ [][NextIndex]_vars

\* --------------------------------------------- the popout destroyed
\* the host destroys a listed popout window without a 'close' event
\* (BrowserWindow.destroy()); the window emits 'closed', and the 'closed'
\* listener that setupWindowEventHandlers attached at adoption clears the
\* plugin's references
HostDestroys(w) ==
    /\ events < MaxEvents
    /\ w \in DOMAIN wins /\ wins[w].state \in {"visible", "hidden"}
    /\ events' = events + 1
    /\ wins' = [wins EXCEPT ![w].state = "destroyed"]
    /\ IF wins[w].hClose
       THEN popNoteWindow' = 0 /\ popNoteLeaf' = 0 /\ currentFile' = 0
       ELSE UNCHANGED wmVars
    /\ lastOp' = "closed"
    /\ UNCHANGED <<now, ticks, files, trackVars, confVars, sessVars, geomVars, invs, timers,
                   presses, errors>>
    /\ UNCHANGED persisted

\* presses that do not overlap, the navigation commands and the host
\* destroying the popout
NextDestroy ==
    \/ \E d \in UserDeltas : QuietPress(d)
    \/ Continue
    \/ \E dir \in {"previous", "next"}, d \in NavDeltas : Navigate(dir, d)
    \/ \E w \in DOMAIN wins : HostDestroys(w)

SpecDestroy == Init /\ [][NextDestroy]_vars

\* ------------------------------------------------------------ unload
\* WindowManager.destroyPopNoteWindow: the tracked window, if it is alive, is
\* destroyed, and the references are cleared in any case
destroyPopNoteWindow(s) ==
    LET w == s.popNoteWindow
        ws == IF w # 0 /\ s.wins[w].state # "destroyed"
              THEN [s.wins EXCEPT ![w].state = "destroyed"]
              ELSE s.wins
    IN  [s EXCEPT !.wins = ws, !.popNoteWindow = 0, !.popNoteLeaf = 0, !.currentFile = 0]

\* PopNotePlugin.onunload: unregisterAll() and destroyPopNoteWindow(); the
\* handlers that wait and the timers that are set are not cancelled
Unload ==
    /\ registeredHotkeys # <<>>
    /\ registeredHotkeys' = unregisterAll(Hm).registeredHotkeys
    /\ globalShortcut' = unregisterAll(Hm).globalShortcut
    /\ Commit(destroyPopNoteWindow(St))
    /\ lastOp' = "unload"
    /\ UNCHANGED <<now, ticks, files, pinnedNotes, lastCreatedNote, confVars, geomVars,
                   procVars, errors, minVars, windowLevel, sortOrder, cursorPosition,
                   createNoteHotkey, lastNavigationTimestamp, restoreTimers, mainWindow,
                   reconnectTimer, lastNav>>
    /\ UNCHANGED persisted

\* from onload to onunload: the hotkey reaches the plugin while the host has
\* it registered
NextUnload ==
    \/ \E d \in UserDeltas : registeredHotkeys # <<>> /\ QuietPress(d)
    \/ Continue
    \/ Unload

SpecUnload == Init /\ [][NextUnload]_vars

\* ------------------------------------------------ settings migration
\* the window-level keys of a data.json: as main.ts wrote it (alwaysOnTop
\* beside windowLevel 'screen-saver' | 'normal') and as this version writes it
LegacyData ==
    {[key \in {"alwaysOnTop", "windowLevel"} |->
         IF key = "alwaysOnTop" THEN a ELSE l] :
       a \in {"true", "false"}, l \in {"screen-saver", "normal"}}
CurrentData == {[key \in {"windowLevel"} |-> l] : l \in {"screen-saver", "floating", "normal"}}

\* DEFAULT_SETTINGS, the window-level key
DefaultSettings == [key \in {"windowLevel"} |-> "screen-saver"]

\* Object.assign({}, target, source)
ObjectAssign(target, source) ==
    [key \in DOMAIN target \cup DOMAIN source |->
        IF Has(source, key) THEN source[key] ELSE target[key]]

\* PopNotePlugin.migrateSettings
migrateSettings(s) ==
    IF Has(s, "alwaysOnTop")
    THEN Del(IF s["alwaysOnTop"] = "true" THEN Put(s, "windowLevel", "floating") ELSE s,
             "alwaysOnTop")
    ELSE s

\* PopNotePlugin.loadSettings, the window-level keys of this.settings
loadSettings(loadedData) == migrateSettings(ObjectAssign(DefaultSettings, loadedData))

\* the plugin, with no window and nothing running, is loaded again over a
\* data.json whose window-level keys are loadedData: loadSettings
LoadSettings(loadedData) ==
    /\ events < MaxEvents
    /\ invs = <<>> /\ timers = {} /\ popNoteWindow = 0
    /\ events' = events + 1
    /\ windowLevel' = loadSettings(loadedData)["windowLevel"]
    /\ fileTracking' = persisted.fileTracking
    /\ cursorPositions' = persisted.cursorPositions
    /\ pinnedNotes' = persisted.pinnedNotes
    /\ lastCreatedNote' = persisted.lastCreatedNote
    /\ lastUsedWindowSize' = persisted.lastUsedWindowSize
    /\ lastWindowPosition' = persisted.lastWindowPosition
    /\ popNoteLeaf' = 0 /\ currentFile' = 0
    /\ lastOp' = "loadSettings"
    /\ UNCHANGED <<hostVars, popNoteWindow, confVars, invs, timers, presses, errors, minVars,
                   sortOrder, cursorPosition, createNoteHotkey, registeredHotkeys,
                   globalShortcut, lastNavigationTimestamp, restoreTimers, mainWindow,
                   reconnectTimer, lastNav, persisted>>

NextMigrate ==
    \/ \E loadedData \in LegacyData \cup CurrentData : LoadSettings(loadedData)
    \/ \E d \in UserDeltas : QuietPress(d)
    \/ Continue

SpecMigrate == Init /\ [][NextMigrate]_vars

\* ------------------------------------------- FileTracker, call by call
\* the TFile objects the tracker is called with: three paths, three creation
\* times and a file whose stat has no ctime
TrackPaths == {"PopNotes/A.md", "PopNotes/B.md", "PopNotes/C.md"}
TrackCtimes == {0, 100, 200, 300}
TrackFiles == [path : TrackPaths, ctime : TrackCtimes]

trackerFrame == <<hostVars, wmVars, cursorPositions, pinnedNotes, lastCreatedNote, confVars,
                  geomVars, procVars, sessVars, persisted>>

\* a call of FileTracker.trackFile(file)
TrackFile(file) ==
    /\ fileTracking' = trackFile(fileTracking, file)
    /\ lastOp' = "trackFile"
    /\ UNCHANGED <<trackerFrame, errors>>

\* updateFilePath, raising for an old path that is not tracked
UpdateFilePathThrows(oldPath, newPath) ==
    /\ oldPath # newPath
    /\ fileTracking' = updateFilePath(fileTracking, oldPath, newPath)
    /\ errors' = IF Has(fileTracking.pathToFileId, oldPath) THEN errors
                 ELSE errors \cup {"updateFilePath"}
    /\ lastOp' = IF Has(fileTracking.pathToFileId, oldPath) THEN "updateFilePath"
                 ELSE "updateFilePathUntracked"
    /\ UNCHANGED trackerFrame

\* a call of FileTracker.updateFilePath(oldPath, newPath)
UpdateFilePath(oldPath, newPath) ==
    /\ oldPath # newPath
    /\ fileTracking' = updateFilePath(fileTracking, oldPath, newPath)
    /\ errors' = errors
    /\ lastOp' = IF Has(fileTracking.pathToFileId, oldPath) THEN "updateFilePath"
                 ELSE "updateFilePathUntracked"
    /\ UNCHANGED trackerFrame

NextTracker ==
    \/ \E file \in TrackFiles : TrackFile(file)
    \/ \E oldPath, newPath \in TrackPaths : UpdateFilePath(oldPath, newPath)

SpecTracker == Init /\ [][NextTracker]_vars

\* ------------------------------------------------------------------ claims

\* the windows the plugin has adopted (marked isPopNote, listeners attached)
\* and that still exist
HeldHandles == {w \in getAllWindows : wins[w].isPopNote}

\* C1: after any sequence of hotkey invocations, overlapping ones included,
\* the plugin never holds more than one live window handle at the same time.
C1_AtMostOneHandle == Cardinality(HeldHandles) <= 1

\* a window creation is in flight: the popout is requested and the settle
\* timer has not run yet
CreationInFlight == timers # {} \/ \E i \in DOMAIN invs : invs[i].pc = "cOpen"

\* C2: a call that arrives while a creation is in flight does not request a
\* second popout window.
C2_NoSecondRequest == [][CreationInFlight => Len(wins') = Len(wins)]_vars

\* C5: under policy 'none', once all invocations have run to their end the
\* number of notes created equals the number of hotkey presses.
C5_EveryPressCreates ==
    (bufferTime = "none" /\ invs = <<>>) => Len(files) = presses

\* C8: any two distinct created notes have different stable ids.
C8_NoIdCollision ==
    \A f, g \in DOMAIN files : f # g => getFileId(files[f]) # getFileId(files[g])

\* a hotkey press finds the window hidden and decides to reuse: it ends in
\* this step ("show"); when it decides to create, it ends when the new note
\* is open ("showNew")
SameGeometry(w) ==
    /\ windowSizeMode = "remember" => wins'[w].size = wins[w].size
    /\ windowPosition = "last" => wins'[w].pos = wins[w].pos

HideKeepsWindow ==
    (lastOp' = "hide" /\ errors' = errors) =>
        /\ \E w \in DOMAIN wins :
              /\ ~isDestroyed(w)
              /\ wins' = [wins EXCEPT ![w].state = "hidden"]
        /\ currentFile' = currentFile /\ popNoteWindow' = popNoteWindow

HiddenKeepsGeometry ==
    \A w \in DOMAIN wins :
        (wins[w].state = "hidden" /\ wins'[w].state = "hidden") =>
            (wins'[w].size = wins[w].size /\ wins'[w].pos = wins[w].pos)

ShowsSameNote(w) ==
    /\ wins'[w].state = "visible"
    /\ wins'[w].file = wins[w].file
    /\ currentFile' = currentFile
    /\ SameGeometry(w)

Decides == lastOp' \in {"show", "reuse", "create", "createThrow"}
DecidesReuse == lastOp' \in {"show", "reuse"}

\* C4: under bufferTime = 5 the press reuses iff now - timestamp < 5 * 60000
\* and the last note still resolves to an existing file; at exactly
\* timestamp + 300000 it creates.
C4_ReuseIffWithinBuffer ==
    [][(bufferTime = "5" /\ Decides) =>
          (DecidesReuse <=>
              /\ lastCreatedNote # <<>>
              /\ now' - lastCreatedNote[1].timestamp < 5 * MsPerMinute
              /\ getLastCreatedNote # 0)]_vars

\* C6: under 'permanent' a press that brings the window up, from no window or
\* from a hidden one, creates a note iff lastCreatedNote is unset or its file
\* no longer exists.
C6_PermanentCreatesIffGone ==
    [][(bufferTime = "permanent" /\ Decides) =>
          (~DecidesReuse <=> getLastCreatedNote = 0)]_vars

\* the note f is renamed in this step
Renamed(f) == lastOp' = "rename" /\ files'[f].path # files[f].path

\* the index holds the note f: what trackFile(f) leaves behind
Tracked(f) ==
    /\ Has(fileTracking.pathToFileId, files[f].path)
    /\ fileTracking.pathToFileId[files[f].path] = getFileId(files[f])
    /\ getTrackedPath(getFileId(files[f])) = files[f].path

\* C7: after trackFile(N) and a rename N.path -> P2, getTrackedPath(fileId(N))
\* is P2, the reverse map has P2 -> fileId(N), and the reverse map has no
\* entry for the old path.
C7_IdentitySurvivesRename ==
    [][\A f \in DOMAIN files : (Renamed(f) /\ Tracked(f)) =>
          LET fileId == getFileId(files[f])
              P2 == files'[f].path
          IN  /\ Has(fileTracking'.fileIdToPath, fileId)
              /\ fileTracking'.fileIdToPath[fileId] = P2
              /\ Has(fileTracking'.pathToFileId, P2)
              /\ fileTracking'.pathToFileId[P2] = fileId
              /\ ~Has(fileTracking'.pathToFileId, files[f].path)]_vars

\* C7 witness: a tracked note has been renamed and the index follows it
C7_Witness ==
    /\ lastOp = "rename"
    /\ \E f \in DOMAIN files :
          /\ files[f].path \in RenameTargets
          /\ getTrackedPath(getFileId(files[f])) = files[f].path

\* C9: after a cursor position is saved for path A and the rename A -> B is
\* handled, getCursorPosition(B) is that position and getCursorPosition(A) is
\* no position.
C9_CursorMigrates ==
    [][\A f \in DOMAIN files :
          (Renamed(f) /\ Has(cursorPositions, files[f].path)) =>
              /\ getCursorPosition(cursorPositions', files'[f].path)
                     = cursorPositions[files[f].path]
              /\ getCursorPosition(cursorPositions', files[f].path) = ""]_vars

\* C9 witness: a note renamed with a saved cursor position, which is not the
\* initial one, has it under its new path
C9_Witness ==
    /\ lastOp = "rename"
    /\ \E f \in DOMAIN files :
          /\ files[f].path \in RenameTargets
          /\ getCursorPosition(cursorPositions, files[f].path) = "c1"

\* C10: deletePopNote on a tracked, pinned, cursor-remembered note removes
\* its entries of fileIdToPath and pathToFileId, its cursor position and its
\* entry of pinnedNotes.
C10_DeleteRemovesAll ==
    [][\A f \in DOMAIN files :
          (/\ lastOp' = "deletePopNote" /\ files[f].exists /\ ~files'[f].exists
           /\ Tracked(f)
           /\ Has(cursorPositions, files[f].path)
           /\ files[f].path \in Range(pinnedNotes)) =>
              /\ ~Has(fileTracking'.fileIdToPath, getFileId(files[f]))
              /\ ~Has(fileTracking'.pathToFileId, files[f].path)
              /\ ~Has(cursorPositions', files[f].path)
              /\ files[f].path \notin Range(pinnedNotes')]_vars

\* the existing notes left once f is deleted
Remaining(f) == {g \in DOMAIN files : g # f /\ files[g].exists}

\* C11: when deletePopNote deletes the displayed note, the window switches to
\* another note of the list, or is hidden with no displayed note when no note
\* remains; it never still displays the deleted note.
C11_DeleteSwitchesDisplayed ==
    [][\A f \in DOMAIN files :
          (/\ lastOp' = "deletePopNote" /\ files[f].exists /\ ~files'[f].exists
           /\ currentFile = f /\ popNoteWindow # 0 /\ ~isDestroyed(popNoteWindow)) =>
              /\ currentFile' # f
              /\ Remaining(f) # {} => currentFile' \in Remaining(f)
              /\ Remaining(f) = {} =>
                    /\ currentFile' = 0
                    /\ popNoteWindow # 0 => ~isVisible(popNoteWindow)']_vars

\* a navigation command runs in this step past its throttle, standing on a
\* note of the list
Navigates(dir) ==
    /\ lastOp' \in {dir, dir \o "NoticeNoFile", dir \o "NoticeNotPopNote"}
    /\ CurrentIndex # 0
\* the step shows a Notice
Noticed(dir) == lastOp' \in {dir \o "NoticeNoFile", dir \o "NoticeNotPopNote"}
\* the step leaves the displayed note alone and starts nothing
NavNoOp ==
    /\ currentFile' = currentFile /\ files' = files /\ invs' = invs /\ wins' = wins
\* the step starts the creation of a note
StartsCreation == \E i \in DOMAIN invs' : invs'[i].pc \in {"hCreate", "aCreate"}
\* the navigation before this one was a 'next' on the newest note, less than
\* 3 seconds ago
SecondNext ==
    /\ lastNav # <<>> /\ lastNav[1].dir = "next" /\ lastNav[1].index = 1
    /\ now' - lastNav[1].time < 3 * MsPerSecond

\* C12: standing on the newest note (index 0 of the list), a first 'next'
\* shows a notice, creates no note and leaves the displayed note unchanged; a
\* second 'next' within 3 seconds creates a new note.
C12_NextAtNewest ==
    [][(Navigates("next") /\ CurrentIndex = 1) =>
          IF SecondNext THEN StartsCreation
          ELSE Noticed("next") /\ NavNoOp]_vars

\* C13: 'previous' on the oldest note (last index of the list) gives
\* feedback and is otherwise a no-op: same displayed note, no note created.
C13_PreviousAtOldest ==
    [][(Navigates("previous") /\ CurrentIndex = Len(getPopNotesSorted)) =>
          Noticed("previous") /\ NavNoOp]_vars

\* C14: away from the boundaries 'previous' goes from index i to i + 1 (the
\* next older note) and 'next' from index i to i - 1 (the next newer note).
C14_NavigationDirection ==
    [][/\ (Navigates("previous") /\ CurrentIndex < Len(getPopNotesSorted)) =>
            /\ lastOp' = "previous" /\ Has(invs', 0)
            /\ invs'[0].file = getPopNotesSorted[CurrentIndex + 1]
       /\ (Navigates("next") /\ CurrentIndex > 1) =>
            /\ lastOp' = "next" /\ Has(invs', 0)
            /\ invs'[0].file = getPopNotesSorted[CurrentIndex - 1]]_vars

\* a note is pinned
Pinned(f) == files[f].path \in Range(pinnedNotes)

\* C15: getPopNotesSorted has every note of the folder exactly once, all
\* pinned notes before all unpinned ones, and each group in descending order
\* of the configured time.
C15_SortedPinnedFirst ==
    LET notes == getPopNotesSorted
    IN  /\ Range(notes) = PopNotes
        /\ Len(notes) = Cardinality(PopNotes)
        /\ \A i, j \in DOMAIN notes : i < j =>
              /\ ~(Pinned(notes[j]) /\ ~Pinned(notes[i]))
              /\ (Pinned(notes[i]) <=> Pinned(notes[j])) =>
                    SortTime(notes[i]) >= SortTime(notes[j])

\* the user's close request reaches the popout window w in this step
CloseRequested(w) == lastOp' = "close" /\ isVisible(w) /\ wins'[w].state # "visible"

\* C16: a close request on the popout window is converted into hide and never
\* destroys the window: the window is hidden, the handle is kept, and the
\* next hotkey press shows the same window again.
C16_CloseBecomesHide ==
    [][/\ \A w \in DOMAIN wins : CloseRequested(w) =>
             /\ wins'[w].state = "hidden"
             /\ popNoteWindow' = popNoteWindow
       /\ lastOp' \in {"show", "showNew"} =>
             /\ popNoteWindow' = popNoteWindow
             /\ wins'[popNoteWindow].state = "visible"]_vars

\* C17: when the main window closes, every PopNote window is closed and the
\* plugin's window handle, leaf and displayed-note references are cleared,
\* whatever the state of the popout (creating, visible, hidden).
C17_MainCloseCascades ==
    [][lastOp' = "mainClose" =>
          /\ \A w \in DOMAIN wins : wins'[w].state = "destroyed"
          /\ popNoteWindow' = 0 /\ popNoteLeaf' = 0 /\ currentFile' = 0]_vars

\* the placement the cursorPosition setting asks for, given the position
\* saved for the note ("" when none)
Placement(saved) ==
    IF cursorPosition = "last" /\ saved # "" THEN saved ELSE "start"

\* C18: when the window is shown with a note, the cursor is where the
\* cursorPosition setting puts it: 'start' at line 0, ch 0; 'last' at the
\* position saved for the file, or at the default placement when none is saved.
C18_CursorPlacement ==
    [][(lastOp' \in {"show", "showNew", "opened"} /\ popNoteLeaf' # 0 /\ currentFile' # 0) =>
          wins'[popNoteLeaf'].cursor =
             Placement(getCursorPosition(cursorPositions', files'[currentFile'].path))]_vars

\* the modifier parts and the regular-key parts of an accelerator
ModifierParts(h) == {i \in DOMAIN split(h) : IsModifier(split(h)[i])}
RegularParts(h) == {i \in DOMAIN split(h) : split(h)[i] # <<>> /\ ~IsModifier(split(h)[i])}

\* an accelerator with at least one modifier and exactly one regular key
WellFormed(h) == ModifierParts(h) # {} /\ Cardinality(RegularParts(h)) = 1

\* C19: isValidHotkey accepts an accelerator only if it has at least one
\* modifier and exactly one regular key ('Ctrl+', 'Space' and 'Cmd+Cmd' are
\* rejected; 'CmdOrCtrl+Shift+P', 'Alt+Space', 'Ctrl+Alt+N' and 'Shift+F1' are
\* accepted), and only accepted accelerators are registered.
C19_ValidHotkey ==
    /\ isValidHotkey(createNoteHotkey) => WellFormed(createNoteHotkey)
    /\ \A i \in DOMAIN registeredHotkeys : WellFormed(registeredHotkeys[i])
    /\ createNoteHotkey \in {<<"Ctrl", "+">>, <<"Space">>, <<"Cmd", "+", "Cmd">>} =>
          ~isValidHotkey(createNoteHotkey)
    /\ isValidHotkey(<<"CmdOrCtrl", "+", "Shift", "+", "P">>)
    /\ isValidHotkey(<<"Alt", "+", "Space">>)
    /\ isValidHotkey(<<"Ctrl", "+", "Alt", "+", "N">>)
    /\ isValidHotkey(<<"Shift", "+", "F1">>)

\* the live popouts that come from the previous session
Restored == {w \in DOMAIN wins : wins[w].restored /\ wins[w].state \in {"visible", "hidden"}}

\* C20: after a restart with a popout of the previous session still there,
\* the plugin reconnects to it: once the reconnect has run the popout is the
\* plugin's window handle, and no other window is created while it lives.
C20_Reconnects ==
    [][/\ (lastOp' = "reconnect" /\ Restored # {}) => popNoteWindow' \in Restored
       /\ (Restored # {} /\ ~reconnectTimer) => DOMAIN wins' = DOMAIN wins]_vars

\* the user resizes / moves the adopted popout in this step
ResizesAdopted ==
    /\ lastOp' = "resize" /\ popNoteWindow # 0
    /\ wins[popNoteWindow].hClose /\ wins'[popNoteWindow].size # wins[popNoteWindow].size
MovesAdopted ==
    /\ lastOp' = "move" /\ popNoteWindow # 0
    /\ wins[popNoteWindow].hClose /\ wins'[popNoteWindow].pos # wins[popNoteWindow].pos

\* C21: a resize (move) of the popout is persisted exactly when the size
\* policy is 'remember' (the position policy is 'last') at the time of the
\* event, also when the policy was changed after the window was created.
C21_GeometryFollowsPolicy ==
    [][/\ ResizesAdopted =>
             lastUsedWindowSize' = IF windowSizeMode = "remember"
                                   THEN wins'[popNoteWindow].size ELSE lastUsedWindowSize
       /\ MovesAdopted =>
             lastWindowPosition' = IF windowPosition = "last"
                                   THEN wins'[popNoteWindow].pos ELSE lastWindowPosition]_vars

LastNote ==
    {f \in DOMAIN files : /\ files[f].exists /\ lastCreatedNote # <<>>
                          /\ getFileId(files[f]) = lastCreatedNote[1].fileId}

\* a hotkey press runs in this step and finds no window
AbsentPress ==
    /\ presses' = presses + 1
    /\ popNoteWindow = 0 \/ isDestroyed(popNoteWindow)

\* C23: when the last created note has been renamed, the buffer policy says
\* reuse and there is no window, the press opens the renamed note and creates
\* no note.
C23_ReuseSurvivesRename ==
    [][\A f \in LastNote :
          (/\ AbsentPress /\ shouldReuseLastNote(now')
           /\ files[f].path # lastCreatedNote[1].path) =>
              /\ lastOp' = "reuse"
              /\ presses' \in DOMAIN invs' /\ invs'[presses'].file = f
              /\ files' = files]_vars

\* C23 witness: a press with no window has just reused the renamed last note
C23_Witness ==
    /\ lastOp = "reuse"
    /\ \E f \in LastNote : /\ files[f].path # lastCreatedNote[1].path
                            /\ presses \in DOMAIN invs /\ invs[presses].file = f

\* C24: after any sequence of track, rename and delete events fileIdToPath
\* and pathToFileId are inverses of each other: every id maps to one path
\* that maps back to it, and every path maps to an id that maps back to it.
C24_IndexMapsInverse ==
    LET idToPath == fileTracking.fileIdToPath
        pathToId == fileTracking.pathToFileId
    IN  /\ \A id \in DOMAIN idToPath :
              Has(pathToId, idToPath[id]) /\ pathToId[idToPath[id]] = id
        /\ \A path \in DOMAIN pathToId :
              Has(idToPath, pathToId[path]) /\ idToPath[pathToId[path]] = path

\* the vault reports in this step that the note f was deleted
VaultDeletes(f) == lastOp' = "delete" /\ files[f].exists /\ ~files'[f].exists

\* C25: on a vault delete event for a tracked path P the tracker drops P's
\* identity entry, its reverse mapping and its cursor position, so that
\* getTrackedPath of the note's id finds nothing; for a path that was never
\* tracked the index does not change and no error is raised.
C25_DeleteForgets ==
    [][\A f \in DOMAIN files : VaultDeletes(f) =>
          LET P == files[f].path
              fileId == getFileId(files[f])
          IN  /\ Tracked(f) =>
                    /\ ~Has(fileTracking'.fileIdToPath, fileId)
                    /\ ~Has(fileTracking'.pathToFileId, P)
              /\ ~Has(cursorPositions', P)
              /\ ~Has(fileTracking.pathToFileId, P) => fileTracking' = fileTracking
              /\ errors' = errors]_vars

\* the settle timer t runs in this step
Settles(t) == t \in timers /\ t \notin timers' /\ lastOp' \in {"adopted", "notFound"}

\* C26: when the settle timer finds zero or more than one window that is not
\* in its snapshot, no handle is adopted and, no handle being held, the leaf
\* and the displayed note are cleared; with exactly one new window that
\* window becomes the handle.
C26_AdoptsOnlySingleNew ==
    [][\A t \in timers : Settles(t) =>
          LET fresh == getAllWindows \ t.before
          IN  IF Cardinality(fresh) = 1
              THEN popNoteWindow' \in fresh
              ELSE /\ popNoteWindow' \notin fresh
                   /\ popNoteWindow = 0 =>
                         (popNoteWindow' = 0 /\ popNoteLeaf' = 0 /\ currentFile' = 0)]_vars


\* C27: every step that takes the popout window from hidden to visible,
\* whichever entry point runs it, has applied the window-level policy to it
\* when windowLevel is not 'normal'.
C27_ShowReappliesLevel ==
    [][\A w \in DOMAIN wins :
          (wins[w].state = "hidden" /\ wins'[w].state = "visible"
              /\ windowLevel # "normal") => wins'[w].levelApplied]_vars


\* C28: whenever the hotkey or an intercepted close takes the window that
\* displays a note from visible to hidden, the cursor of that note was read
\* into the cursor memory while the window was still visible, never after
\* the window was hidden.
C28_CursorSavedBeforeHide ==
    [][\A w \in DOMAIN wins :
          (/\ lastOp' \in {"hide", "close"}
           /\ wins[w].state = "visible" /\ wins'[w].state = "hidden"
           /\ popNoteLeaf = w /\ currentFile # 0)
              => wins'[w].savedWhile = "visible"]_vars


\* C29: no entry point ends with an exception that nothing catches, also
\* when the popout window is destroyed or its handle cleared while the
\* entry point waits between its existence check and its use of the window.
C29_NoUncaughtException == errors = {}


\* C30: once no handler is running and no save is pending, the saved
\* document equals the settings in memory: every step that changed the
\* identity index, the cursor memory, lastCreatedNote, the window geometry
\* or the pinned list issued a save, the intercepted close and the opening
\* of a note included.
C30_SavedAfterMutation == (invs = <<>> /\ timers = {}) => persisted = settings


\* C31: trackFile is idempotent: whatever the identity index holds, a second
\* call with the same note leaves both maps as the first call left them.
C31_TrackFileIdempotent ==
    \A file \in TrackFiles :
        trackFile(trackFile(fileTracking, file), file) = trackFile(fileTracking, file)

\* C31 witness: trackFile has run and the index holds a note's id under
\* another path than the note's, so that the next call takes the rename
\* branch.
C31_Witness ==
    /\ lastOp = "trackFile"
    /\ \E file \in TrackFiles :
          /\ Has(fileTracking.fileIdToPath, getFileId(file))
          /\ fileTracking.fileIdToPath[getFileId(file)] # file.path
          /\ Has(fileTracking.pathToFileId, file.path)


\* C32: updateFilePath(oldPath, newPath) for an old path that has no tracked
\* id changes neither identity map and raises no error.
C32_UntrackedRenameNoOp ==
    [][\A oldPath, newPath \in TrackPaths :
          (UpdateFilePath(oldPath, newPath) /\ ~Has(fileTracking.pathToFileId, oldPath))
              => (fileTracking' = fileTracking /\ errors' = errors)]_vars

\* C32 witness: updateFilePath has run for an old path without a tracked id,
\* on an index that holds notes.
C32_Witness ==
    /\ lastOp = "updateFilePathUntracked"
    /\ DOMAIN fileTracking.fileIdToPath # {}


\* the plugin holds no window handle, no leaf and no displayed note
Absent == popNoteWindow = 0 /\ popNoteLeaf = 0 /\ currentFile = 0

\* an entry point ends in this step with an exception raised on the window
WindowThrows ==
    (errors' \ errors) \cap {"hide", "show", "showExistingWindow", "openFileInExistingWindow"} # {}

\* C33: when the adopted popout window is destroyed ('closed'), or a call on
\* the window throws, the plugin is left with no handle, no leaf and no
\* displayed note, and a hotkey press that finds no live window opens a new
\* one.
C33_DestroyedGoesAbsent ==
    [][/\ (lastOp' = "closed" /\ popNoteWindow # 0 /\ wins'[popNoteWindow].state = "destroyed") => Absent'
       /\ WindowThrows => Absent'
       /\ (presses' = presses + 1 /\ (popNoteWindow = 0 \/ isDestroyed(popNoteWindow))) =>
             /\ lastOp' \in {"create", "createThrow", "reuse"}
             /\ lastOp' = "reuse" => Len(wins') = Len(wins) + 1]_vars


\* the plugin holds no window handle, every popout it opened is destroyed and
\* no hotkey is registered
TornDown ==
    /\ popNoteWindow = 0
    /\ registeredHotkeys = <<>>
    /\ \A w \in DOMAIN wins : wins[w].state = "destroyed"

\* C34: from the end of onunload on, the plugin holds no window handle, every
\* popout it opened is destroyed and no hotkey is registered, also when
\* onunload runs while a settle timer is pending: onunload ends torn down,
\* and no later step undoes it.
C34_UnloadTearsDown ==
    [][/\ lastOp' = "unload" => TornDown'
       /\ TornDown => TornDown']_vars


C36_MigrationKeepsOnTop ==
    [][\A loadedData \in LegacyData :
          LoadSettings(loadedData) =>
              /\ (windowLevel' # "normal") = (loadedData["alwaysOnTop"] = "true")
              /\ ~Has(loadSettings(loadedData), "alwaysOnTop")]_vars

\* ------------------------------------- navigation that creates (main.ts)
\* 'next' pressed again on the newest note creates a note in main.ts only;
\* its state is shouldCreateNewNote, lastNavigationTimestamp and the note of
\* the active markdown view

\* main.ts getPopNotesSorted: newest first, the pinned notes moved to the top
PinnedFirst(a, b) ==
    LET pinnedA == files[a].path \in Range(pinnedNotes)
        pinnedB == files[b].path \in Range(pinnedNotes)
    IN  (pinnedA /\ ~pinnedB) \/ (pinnedA = pinnedB /\ SortsBefore(a, b))

getPopNotesSortedPinnedFirst ==
    [i \in 1..Cardinality(PopNotes) |->
        CHOOSE f \in PopNotes :
            Cardinality({g \in PopNotes : PinnedFirst(g, f)}) = i - 1]

\* notes.findIndex(note => note.path === currentPath), 1-based, 0 for -1
ActiveIndex ==
    IF activeFile = 0 THEN 0
    ELSE LET notes == getPopNotesSortedPinnedFirst
             hits == {i \in DOMAIN notes : files[notes[i]].path = files[activeFile].path}
         IN  IF hits = {} THEN 0 ELSE CHOOSE i \in hits : \A j \in hits : i <= j

\* main.ts navigateNote at time t: what it does to the flag and the
\* timestamp, whether it calls createNewPopNote, the note it opens (0 for
\* none), whether it opens it through showPopNoteWindow, and what it saw
navigateNote(direction, t) ==
    LET notes == getPopNotesSortedPinnedFirst
        currentIndex == ActiveIndex
        keep == [flag |-> shouldCreateNewNote, ts |-> lastNavigationTimestamp,
                 create |-> FALSE, target |-> 0, show |-> FALSE, op |-> direction]
    IN  IF activeFile = 0
        THEN IF Len(notes) > 0
             THEN [keep EXCEPT !.target = notes[1], !.show = TRUE,
                               !.op = direction \o "NoView"]
             ELSE [keep EXCEPT !.create = TRUE, !.show = TRUE,
                               !.op = direction \o "NoViewCreate"]
        ELSE IF currentIndex = 0
        THEN [keep EXCEPT !.op = direction \o "NotPopNote"]
        ELSE IF direction = "next"
        THEN IF currentIndex = 1
             THEN IF shouldCreateNewNote /\ t - lastNavigationTimestamp < 3 * MsPerSecond
                  THEN [keep EXCEPT !.create = TRUE, !.flag = FALSE, !.op = "nextCreate"]
                  ELSE [keep EXCEPT !.flag = TRUE, !.ts = t, !.op = "nextNotice"]
             ELSE [keep EXCEPT !.target = notes[currentIndex - 1], !.flag = FALSE]
        ELSE IF currentIndex = Len(notes)
             THEN [keep EXCEPT !.op = "previousNotice"]
             ELSE [keep EXCEPT !.target = notes[currentIndex + 1], !.flag = FALSE]

\* main.ts navigateNote, a command run d ms after the last handler, with
\* its createNewPopNote (vault.create, lastCreatedNote, saveSettings) and
\* the note it opens in the active leaf or, with no active view, through
\* showPopNoteWindow (which requests the popout when there is none)
NavigateNote(direction, d) ==
    /\ Elapse(d)
    /\ invs = <<>> /\ timers = {}
    /\ LET r == navigateNote(direction, now')
           file == [path |-> notePath(now'), ctime |-> now', mtime |-> now',
                    exists |-> TRUE]
           fails == r.create /\ PathExists(file.path)
           opened == IF fails THEN 0
                     ELSE IF r.create THEN Len(files) + 1 ELSE r.target
       IN  /\ lastNav' = <<[dir |-> direction, index |-> ActiveIndex, time |-> now']>>
           /\ shouldCreateNewNote' = IF fails THEN shouldCreateNewNote ELSE r.flag
           /\ lastNavigationTimestamp' = r.ts
           /\ files' = IF r.create /\ ~fails THEN Append(files, file) ELSE files
           /\ lastCreatedNote' = IF r.create /\ ~fails
                                 THEN <<[path |-> file.path, timestamp |-> now',
                                         fileId |-> NoId]>>
                                 ELSE lastCreatedNote
           /\ errors' = IF fails THEN errors \cup {"create"} ELSE errors
           /\ activeFile' = IF opened # 0 THEN opened ELSE activeFile
           /\ currentFile' = IF opened # 0 THEN opened ELSE currentFile
           /\ IF r.show /\ ~fails
              THEN /\ popout' = IF popout = "absent" THEN "created" ELSE "visible"
                   /\ mainWindowWasVisible' = IF popout = "absent" THEN mainWindow = "open"
                                              ELSE mainWindowWasVisible
              ELSE UNCHANGED <<popout, mainWindowWasVisible>>
           /\ lastOp' = IF fails THEN "createThrow" ELSE r.op
           /\ UNCHANGED <<wins, popNoteWindow, popNoteLeaf, fileTracking, cursorPositions,
                          pinnedNotes, confVars, geomVars, procVars, windowLevel, sortOrder,
                          cursorPosition, createNoteHotkey, registeredHotkeys, globalShortcut,
                          restoreTimers, mainWindow, reconnectTimer, autoMinimizeMode,
                          minimizeScheduled, minimizeTimeouts>>
           /\ IF r.create /\ ~fails THEN saveSettings ELSE UNCHANGED persisted

\* the user opens note f in the active markdown view
UserOpens(f) ==
    /\ events < MaxEvents
    /\ f \in PopNotes /\ f # activeFile
    /\ events' = events + 1
    /\ activeFile' = f
    /\ lastOp' = "opened"
    /\ UNCHANGED <<now, ticks, files, wins, wmVars, trackVars, confVars, geomVars, invs,
                   timers, presses, errors, windowLevel, sortOrder, cursorPosition,
                   createNoteHotkey, registeredHotkeys, globalShortcut,
                   lastNavigationTimestamp, restoreTimers, mainWindow, reconnectTimer,
                   lastNav, autoMinimizeMode, mainWindowWasVisible, minimizeScheduled,
                   minimizeTimeouts, popout, shouldCreateNewNote, persisted>>

\* between two navigation commands: a second, or the three seconds of 'press
\* again'
NewestDeltas == {1000, 3000}

\* a PopNotes folder that holds no note, one note or three
InitNewest ==
    /\ Loaded
    /\ sortOrder \in {"created", "modified"}
    /\ cursorPosition = "start"
    /\ autoMinimizeMode = "dynamic"
    /\ windowLevel = "screen-saver"
    /\ files \in {<<>>, <<OldNote(1, FALSE)>>,
                  <<OldNote(1, FALSE), OldNote(2, FALSE), OldNote(3, FALSE)>>}
    /\ fileTracking = [fileIdToPath |-> <<>>, pathToFileId |-> <<>>]
    /\ lastCreatedNote = <<>>
    /\ bufferTime = "permanent"
    /\ windowSizeMode = "fixed"
    /\ windowPosition = "center"
    /\ persisted = settings

NextNewest ==
    \/ \E direction \in {"previous", "next"}, d \in NewestDeltas : NavigateNote(direction, d)
    \/ \E f \in DOMAIN files : UserOpens(f)

SpecNewest == InitNewest /\ [][NextNewest]_vars

\* C37: a navigation command that finds the current note in the list creates
\* a note only if it is a 'next' on the newest note (index 0) and the command
\* before it was a 'next' on the newest note less than 3000 ms earlier; a
\* single 'next', a 'next' 3000 ms or more after the first, or a 'next' that
\* follows a 'previous' creates none.
C37_CreatesOnlyOnSecondNext ==
    [][\A direction \in {"previous", "next"}, d \in NewestDeltas :
          (NavigateNote(direction, d) /\ ActiveIndex # 0 /\ Len(files') > Len(files)) =>
              /\ direction = "next" /\ ActiveIndex = 1
              /\ lastNav # <<>> /\ lastNav[1].dir = "next" /\ lastNav[1].index = 1
              /\ now' - lastNav[1].time < 3 * MsPerSecond]_vars

\* C38: a pinned note stays pinned across a rename: once the vault's rename
\* of old to new is handled, pinnedNotes contains new exactly when it
\* contained old before, and does not contain old.
C38_PinSurvivesRename ==
    [][\A f \in DOMAIN files, newPath \in RenameTargets :
          VaultRename(f, newPath) =>
              /\ (newPath \in Range(pinnedNotes')) = (files[f].path \in Range(pinnedNotes))
              /\ files[f].path \notin Range(pinnedNotes')]_vars

\* C39: createNewPopNote never asks the vault to create a note at a path
\* that exists: two creations that generate the same name both succeed, and
\* createOrOpenPopNote does not fail on the vault's "already exists".
C39_CreationNeverCollides ==
    /\ lastOp \notin {"createThrow", "createFailed"}
    /\ "create" \notin errors

====
